---------------------------- MODULE Spec2Model ----------------------------
(***************************************************************************)
(* Smart-Gateway: the forward-auth token verification service              *)
(* (auth-service/auth_service.py) and the two JSON-RPC resource servers    *)
(* (mcp-calculator-server/calculator_server.py,                            *)
(* mcp-weather-server/weather_server.py).                                  *)
(*                                                                         *)
(* Conventions                                                             *)
(*  - A Python str is a sequence of chunks (TLA+ strings); "" is <<>>.     *)
(*    Concatenation is \o, equality of strings is equality of sequences.   *)
(*    The Authorization header is spelled character by character, so that  *)
(*    startswith("Bearer ") and [7:] are computed as the code computes     *)
(*    them.  The chunk sets used elsewhere are prefix-free, so two chunk   *)
(*    sequences are equal exactly when the strings they spell are.         *)
(*  - A JSON value is a tagged record      (JNull, JBool, JNum, JStr,    *)
(*    JList, JObj); a JSON object / Python dict is a function whose        *)
(*    DOMAIN is the set of keys present.                                   *)
(*  - A call that may raise returns Return(v) or Raise(type, msg).         *)
(*  - An optional value is a sequence of length 0 (absent) or 1.           *)
(***************************************************************************)
EXTENDS Integers, Sequences, FiniteSets, TLC

VARIABLES
    KEYCLOAK_REALM,     \* auth_service.py:17, read from the environment at import
    verify_request,     \* the /verify request being served: <<>> or <<[headers, upstream]>>
    verify_response,    \* the response verify_token returned for it: <<>> or <<response>>
    mcp_request,        \* the JSON-RPC request being served: <<>> or <<[server, body, headers, now]>>
    mcp_response,       \* the response mcp_endpoint returned for it: <<>> or <<response>>
    revoked,            \* the tokens the authorization server reports inactive
    worker,             \* per request thread of the gateway: the locals of verify_token
    authorized,         \* history: the tokens some earlier /verify answered 200 for
    MCP_TOOLS,          \* calculator_server.py:155, weather_server.py:111: the tool lists
    _jwks_cache,        \* auth_service.py:22
    getkeys,            \* per thread inside get_keycloak_jwks: its position and locals
    published,          \* the key set the authorization server serves at present
    cache_writes,       \* history: the values assigned to _jwks_cache, in order
    inflight,           \* per request task of the resource servers: the locals of mcp_endpoint
    initialized         \* history: the servers that have answered an initialize

\* what only the concurrent /verify requests change
session_vars == <<revoked, worker, authorized>>

\* what only the callers of get_keycloak_jwks change
keys_vars == <<_jwks_cache, getkeys, published, cache_writes>>

\* what only the concurrent JSON-RPC requests change
rpc_vars == <<inflight, initialized>>

vars == <<KEYCLOAK_REALM, verify_request, verify_response, mcp_request, mcp_response,
          session_vars, MCP_TOOLS, rpc_vars, keys_vars>>

---------------------------------------------------------------------------
(* Python and JSON values *)

None == <<>>
Some(v) == <<v>>

Str(s) == <<s>>

JNull == [t |-> "null"]
JBool(b) == [t |-> "bool", bool |-> b]
JNum(n) == [t |-> "num", num |-> n]
JStr(s) == [t |-> "str", str |-> s]
JList(q) == [t |-> "list", items |-> q]
JObj(f) == [t |-> "obj", members |-> f]

EmptyDict == <<>>

Return(v) == [raised |-> FALSE, value |-> v]
Raise(type, msg) == [raised |-> TRUE, type |-> type, msg |-> msg]

\* bool(x) of a JSON-decoded Python value
Truthy(j) ==
    CASE j.t = "null" -> FALSE
      [] j.t = "bool" -> j.bool
      [] j.t = "num"  -> j.num # 0
      [] j.t = "str"  -> j.str # <<>>
      [] j.t = "list" -> j.items # <<>>
      [] j.t = "obj"  -> DOMAIN j.members # {}

\* d.get(key, default) on a Python dict
Get(d, key, default) == IF key \in DOMAIN d THEN d[key] ELSE default

\* j.get(key, default) where j is whatever JSON decoded to: only a dict has .get
dict_get(j, key, default) ==
    IF j.t = "obj"
    THEN Return(Get(j.members, key, default))
    ELSE Raise("AttributeError", Str("object has no attribute 'get'"))

\* startswith tested against the prefix without its last character
\* ("Bearer" instead of "Bearer ")
startswith_shorter(s, prefix) ==
    /\ Len(s) >= Len(prefix) - 1
    /\ SubSeq(s, 1, Len(prefix) - 1) = SubSeq(prefix, 1, Len(prefix) - 1)

\* s.startswith(prefix)
startswith(s, prefix) ==
    /\ Len(s) >= Len(prefix)
    /\ SubSeq(s, 1, Len(prefix)) = prefix

\* s[n:]
DropPrefix(s, n) == SubSeq(s, n + 1, Len(s))

RECURSIVE JoinSeq(_, _)
JoinSeq(sep, parts) ==
    IF parts = <<>> THEN <<>>
    ELSE IF Len(parts) = 1 THEN parts[1].str
    ELSE parts[1].str \o sep \o JoinSeq(sep, Tail(parts))

\* str_join with the roles put in sorted order before joining
\* (the model's role names: "admin" sorts before "user")
str_join_sorted(sep, j) ==
    IF j.t = "list" /\ \A i \in 1..Len(j.items) : j.items[i].t = "str"
    THEN Return(JoinSeq(sep,
            SelectSeq(j.items, LAMBDA r : r.str = Str("admin"))
                \o SelectSeq(j.items, LAMBDA r : r.str # Str("admin"))))
    ELSE Raise("TypeError", Str("sequence item: expected str instance"))

\* sep.join(j): j must be a list whose items are all str
\* (a JSON null or number is not iterable, a non-str item is a TypeError)
str_join(sep, j) ==
    IF j.t = "list" /\ \A i \in 1..Len(j.items) : j.items[i].t = "str"
    THEN Return(JoinSeq(sep, j.items))
    ELSE Raise("TypeError", Str("sequence item: expected str instance"))

---------------------------------------------------------------------------
(* auth-service/auth_service.py: configuration *)

KEYCLOAK_URL == Str("http://keycloak:8080")

\* the values the KEYCLOAK_REALM environment variable is given (the default first)
Realms == {Str("mcp-gateway"), Str("tenant-b")}

discovery_url ==
    KEYCLOAK_URL \o Str("/realms/") \o KEYCLOAK_REALM
                 \o Str("/.well-known/openid-configuration")

auth_url ==
    KEYCLOAK_URL \o Str("/realms/") \o KEYCLOAK_REALM
                 \o Str("/protocol/openid-connect/auth")

\* the realm-dependent members of the discovery document
get_discovery_metadata ==
    LET realm_url == KEYCLOAK_URL \o Str("/realms/") \o KEYCLOAK_REALM IN
    [issuer |-> realm_url,
     authorization_endpoint |-> realm_url \o Str("/protocol/openid-connect/auth"),
     token_endpoint |-> realm_url \o Str("/protocol/openid-connect/token"),
     introspection_endpoint |-> realm_url \o Str("/protocol/openid-connect/token/introspect"),
     jwks_uri |-> realm_url \o Str("/protocol/openid-connect/certs")]

---------------------------------------------------------------------------
(* The introspection authority, as seen through requests.post / raise_for_status / json *)

TransportOk == "ok"

\* Response.raise_for_status(): HTTPError for 4xx and 5xx, nothing else
raise_for_status(status) ==
    IF 400 <= status /\ status < 600
    THEN Raise("HTTPError", Str("Client or Server Error for url"))
    ELSE Return(status)

\* introspect_token answering from memory for a token it saw active before
introspect_token_cached(token, upstream) ==
    IF token \in authorized
    THEN Return(JObj("active" :> JBool(TRUE)))
    ELSE IF upstream.transport # TransportOk
    THEN Raise(upstream.transport, Str("introspection endpoint unreachable"))
    ELSE IF raise_for_status(upstream.status).raised
    THEN raise_for_status(upstream.status)
    ELSE IF upstream.body = None
    THEN Raise("JSONDecodeError", Str("Expecting value"))
    ELSE Return(upstream.body[1])

\* introspect_token(token): upstream is what the network and the authorization
\* server do with this call: [transport, status, body], body None when the
\* payload is not JSON and Some(j) when it decodes to j
introspect_token(token, upstream) ==
    IF upstream.transport # TransportOk
    THEN Raise(upstream.transport, Str("introspection endpoint unreachable"))
    ELSE IF raise_for_status(upstream.status).raised
    THEN raise_for_status(upstream.status)
    ELSE IF upstream.body = None
    THEN Raise("JSONDecodeError", Str("Expecting value"))
    ELSE Return(upstream.body[1])

---------------------------------------------------------------------------
(* auth-service/auth_service.py: verify_token *)

BearerPrefix == <<"B", "e", "a", "r", "e", "r", " ">>

\* the header value Flask hands over for a str claim
header_value(j) == j.str

www_authenticate(description) ==
    [scheme |-> Str("Bearer"),
     realm |-> Str("mcp-gateway"),
     error |-> Str("invalid_token"),
     error_description |-> description,
     authorization_uri |-> auth_url,
     discovery_uri |-> discovery_url]

unauthorized_body(description) ==
    [error |-> Str("unauthorized"),
     error_description |-> description,
     authorization_uri |-> auth_url,
     discovery_uri |-> discovery_url]

\* lines 88-105: the response for a request without "Bearer " in front
missing_bearer_response ==
    [status_code |-> 401,
     json |-> unauthorized_body(Str("Bearer token required")),
     headers |-> ("WWW-Authenticate" :> www_authenticate(Str("Bearer token required")))]

\* the success body counting the tokens the process has authorized so far
ok_response_counting(headers) ==
    [status_code |-> 200,
     json |-> [status |-> Str("ok"), seen |-> Cardinality(authorized)],
     headers |-> headers]

\* lines 123-128: response = jsonify({"status": "ok"}) and the header
\* assignments made so far
ok_response(headers) ==
    [status_code |-> 200,
     json |-> [status |-> Str("ok")],
     headers |-> headers]

\* lines 109-130, the try block.  The result is Return(response) or the
\* exception raised, together with the response object the name `response`
\* was bound to when it was raised (None before line 123).
try_block(token, upstream) ==
    LET info == introspect_token(token, upstream)
        NoResponse(e) == [raised |-> TRUE, type |-> e.type, msg |-> e.msg, response |-> None]
    IN
    IF info.raised THEN NoResponse(info)
    ELSE
    LET token_info == info.value
        active == dict_get(token_info, "active", JBool(FALSE))
    IN
    IF active.raised THEN NoResponse(active)
    ELSE IF ~Truthy(active.value)
    THEN NoResponse(Raise("ValueError", Str("Token is not active")))
    ELSE
    LET sub == dict_get(token_info, "sub", JStr(<<>>)).value
        email == dict_get(token_info, "email", JStr(<<>>)).value
        realm_access == dict_get(token_info, "realm_access", JObj(EmptyDict)).value
        roles == dict_get(realm_access, "roles", JList(<<>>))
    IN
    IF roles.raised THEN NoResponse(roles)
    ELSE
    LET scope == dict_get(token_info, "scope", JStr(<<>>)).value
        h2 == ("X-User-Sub" :> header_value(sub)) @@ ("X-User-Email" :> header_value(email))
        joined == str_join(Str(","), roles.value)
    IN
    IF joined.raised
    THEN [raised |-> TRUE, type |-> joined.type, msg |-> joined.msg,
          response |-> Some(ok_response(h2))]
    ELSE Return(ok_response(h2 @@ ("X-User-Roles" :> joined.value)
                               @@ ("X-User-Scopes" :> header_value(scope))))

\* the except branch writing status and challenge onto the response object
\* the try block had already built, when there is one
except_response_reusing(e) ==
    [status_code |-> 401,
     json |-> unauthorized_body(e.msg),
     headers |-> (IF e.response = None THEN EmptyDict ELSE e.response[1].headers)
                    @@ ("WWW-Authenticate" :> www_authenticate(Str("Token validation failed")))]

\* the except branch putting str(e) into the challenge as it does into the body
except_response_describing(e) ==
    [status_code |-> 401,
     json |-> unauthorized_body(e.msg),
     headers |-> ("WWW-Authenticate" :> www_authenticate(e.msg))]

\* lines 132-151, the except branch: a new response object, whatever the try
\* block had built
except_response(e) ==
    [status_code |-> 401,
     json |-> unauthorized_body(e.msg),
     headers |-> ("WWW-Authenticate" :> www_authenticate(Str("Token validation failed")))]

\* request.headers.get("Authorization", "")
authorization_of(request) == Get(request.headers, "Authorization", <<>>)

\* whether verify_token reaches line 111 and calls the authority
calls_introspection(request) == startswith(authorization_of(request), BearerPrefix)

verify_token(request, upstream) ==
    LET auth_header == authorization_of(request) IN
    IF ~startswith(auth_header, BearerPrefix)
    THEN missing_bearer_response
    ELSE
    LET token == DropPrefix(auth_header, 7)
        out == try_block(token, upstream)
    IN
    IF out.raised THEN except_response(out) ELSE out.value

---------------------------------------------------------------------------
(* /verify requests and the authority's answers *)

Token1 == <<"t", "1">>
Token2 == <<"t", "2">>

\* values of the Authorization header; None is a request without the header
AuthorizationHeaders ==
    { <<>>,                                              \* Authorization: (empty)
      BearerPrefix \o Token1,                            \* Bearer t1
      BearerPrefix \o Token2,                            \* Bearer t2
      BearerPrefix,                                      \* "Bearer " and nothing after it
      <<"B", "e", "a", "r", "e", "r">>,                  \* Bearer (no space)
      <<"B", "e", "a", "r", "e", "r">> \o Token1,        \* Bearert1
      <<"b", "e", "a", "r", "e", "r", " ">> \o Token1,   \* bearer t1
      <<"B", "a", "s", "i", "c", " ">> \o Token1,        \* Basic t1
      <<" ">> \o BearerPrefix \o Token1 }                \* " Bearer t1"

VerifyRequests ==
    {[headers |-> EmptyDict]}
        \cup {[headers |-> ("Authorization" :> h)] : h \in AuthorizationHeaders}

\* {} or {key: v} for each v
OptionalKey(key, values) == {EmptyDict} \cup {key :> v : v \in values}

ActiveValues == {JBool(TRUE), JBool(FALSE), JStr(Str("false")), JNull}
SubValues == {JStr(Str("alice"))}
EmailValues == {JStr(Str("alice@example.org"))}
RolesValues ==
    {JList(<<>>), JList(<<JStr(Str("user")), JStr(Str("admin"))>>),
     JList(<<JNum(1)>>), JNull}
RealmAccessValues ==
    {JNull, JObj(EmptyDict)} \cup {JObj("roles" :> r) : r \in RolesValues}
ScopeValues ==
    {JStr(<<>>), JStr(<<"openid", " ", "calculator:read">>), JStr(<<"weather:read">>)}

\* the JSON objects an introspection response may carry
TokenInfos ==
    {a @@ s @@ e @@ r @@ sc :
        a \in OptionalKey("active", ActiveValues),
        s \in OptionalKey("sub", SubValues),
        e \in OptionalKey("email", EmailValues),
        r \in OptionalKey("realm_access", RealmAccessValues),
        sc \in OptionalKey("scope", ScopeValues)}

\* payloads: not JSON at all, JSON that is no object, a JSON object
UpstreamBodies ==
    {None, Some(JList(<<>>)), Some(JNull)} \cup {Some(JObj(d)) : d \in TokenInfos}

UpstreamStatuses == {200, 300, 401, 503}

Upstreams ==
    {[transport |-> t, status |-> 0, body |-> None] : t \in {"ConnectionError", "Timeout"}}
        \cup {[transport |-> TransportOk, status |-> st, body |-> b] :
                st \in UpstreamStatuses, b \in UpstreamBodies}

---------------------------------------------------------------------------
(* Actions of the verification gateway *)

Threads == {1, 2}

\* MCP_TOOLS of each resource server as the module defines it, each tool by
\* its name, in the order of the list literal
calc_MCP_TOOLS ==
    <<Str("add"), Str("subtract"), Str("multiply"), Str("divide"), Str("power"), Str("sqrt")>>

\* the weather list with a fourth entry that the tool chain has no branch for
weather_MCP_TOOLS_with_air_quality ==
    <<Str("get_weather_forecast"), Str("get_weather_alerts"), Str("get_uv_index"),
      Str("get_air_quality")>>

weather_MCP_TOOLS ==
    <<Str("get_weather_forecast"), Str("get_weather_alerts"), Str("get_uv_index")>>

\* the two resource servers have imported their modules
RegistryInit ==
    MCP_TOOLS = [calculator |-> calc_MCP_TOOLS, weather |-> weather_MCP_TOOLS]

KeySet1 == Str("jwks-1")
KeySet2 == Str("jwks-2")

\* line 22: the cache is empty; no thread is inside get_keycloak_jwks
KeysInit ==
    /\ _jwks_cache = None
    /\ getkeys = [t \in Threads |-> [pc |-> "idle"]]
    /\ published = KeySet1
    /\ cache_writes = <<>>

\* no request is inside mcp_endpoint; no initialize has been answered
RpcInit ==
    /\ inflight = [t \in Threads |-> [pc |-> "idle"]]
    /\ initialized = {}

\* every request thread waits for a request; the authority revoked nothing
SessionInit ==
    /\ revoked = {}
    /\ worker = [t \in Threads |-> [pc |-> "idle"]]
    /\ authorized = {}

Init ==
    /\ KEYCLOAK_REALM \in Realms
    /\ verify_request = None
    /\ verify_response = None
    /\ mcp_request = None
    /\ mcp_response = None
    /\ SessionInit
    /\ RegistryInit
    /\ KeysInit
    /\ RpcInit

\* One /verify request, served from the first line of verify_token to its
\* return.  upstream is recorded only when the handler called the authority.
Verify ==
    /\ verify_request = None
    /\ \E request \in VerifyRequests, upstream \in Upstreams :
          /\ verify_request' =
                Some([headers |-> request.headers,
                      upstream |-> IF calls_introspection(request)
                                   THEN Some(upstream) ELSE None])
          /\ verify_response' = Some(verify_token(request, upstream))
    /\ UNCHANGED <<KEYCLOAK_REALM, mcp_request, mcp_response, session_vars, MCP_TOOLS, rpc_vars, keys_vars>>

\* The response is sent; nothing of the request survives in the process.
VerifyDone ==
    /\ verify_request # None
    /\ verify_request' = None
    /\ verify_response' = None
    /\ UNCHANGED <<KEYCLOAK_REALM, mcp_request, mcp_response, session_vars, MCP_TOOLS, rpc_vars, keys_vars>>

Next == Verify \/ VerifyDone

Spec == Init /\ [][Next]_vars

---------------------------------------------------------------------------
(* Concurrent /verify requests against an authority that revokes tokens *)

\* The development server runs each request on a thread of its own;
\* verify_token keeps everything in locals, here worker[t].

Tokens == {Token1, Token2}

SessionRequests ==
    {[headers |-> EmptyDict]}
        \cup {[headers |-> ("Authorization" :> h)] :
                h \in {<<>>, BearerPrefix, BearerPrefix \o Token1, BearerPrefix \o Token2,
                       <<"B", "a", "s", "i", "c", " ">> \o Token1}}

\* auth_header[7:]
token_of(request) == DropPrefix(authorization_of(request), 7)

\* what the authorization server knows of a token that is not revoked
LiveTokenInfo(token) ==
    IF token = Token1
    THEN ("active" :> JBool(TRUE)) @@ ("sub" :> JStr(Str("alice")))
            @@ ("email" :> JStr(Str("alice@example.org")))
            @@ ("realm_access" :> JObj("roles" :> JList(<<JStr(Str("user")),
                                                            JStr(Str("admin"))>>)))
            @@ ("scope" :> JStr(<<"openid", " ", "calculator:read">>))
    ELSE IF token = Token2
    THEN ("active" :> JBool(TRUE)) @@ ("sub" :> JStr(Str("bob")))
    ELSE ("active" :> JBool(FALSE))

\* the outcomes of one introspection call: the server's answer for the token
\* as it stands now, or the call failing on the way
AuthorityAnswers(token) ==
    {[transport |-> TransportOk, status |-> 200,
      body |-> Some(JObj(IF token \in revoked THEN "active" :> JBool(FALSE)
                         ELSE LiveTokenInfo(token)))],
     [transport |-> TransportOk, status |-> 503, body |-> None],
     [transport |-> "Timeout", status |-> 0, body |-> None]}

NotCalled == [transport |-> "not called", status |-> 0, body |-> None]

\* lines 84-105: the request arrives; without a Bearer header it is answered
\* at once, otherwise the thread goes on to line 111
Receive(t) ==
    /\ worker[t].pc = "idle"
    /\ \E request \in SessionRequests :
          worker' = [worker EXCEPT ![t] =
              IF calls_introspection(request)
              THEN [pc |-> "introspect", request |-> request, calls |-> 0,
                    revoked_at_start |-> revoked]
              ELSE [pc |-> "respond", request |-> request, calls |-> 0,
                    revoked_at_start |-> revoked, upstream |-> None,
                    response |-> verify_token(request, NotCalled)]]
    /\ UNCHANGED <<KEYCLOAK_REALM, verify_request, verify_response, mcp_request,
                   mcp_response, revoked, authorized, MCP_TOOLS, rpc_vars, keys_vars>>

\* lines 109-151: the one call of introspect_token and everything after it,
\* to the return of the try or of the except block
Introspect(t) ==
    /\ worker[t].pc = "introspect"
    /\ \E upstream \in AuthorityAnswers(token_of(worker[t].request)) :
          worker' = [worker EXCEPT ![t] =
              [pc |-> "respond", request |-> worker[t].request,
               calls |-> worker[t].calls + 1,
               revoked_at_start |-> worker[t].revoked_at_start,
               upstream |-> Some(upstream),
               response |-> verify_token(worker[t].request, upstream)]]
    /\ UNCHANGED <<KEYCLOAK_REALM, verify_request, verify_response, mcp_request,
                   mcp_response, revoked, authorized, MCP_TOOLS, rpc_vars, keys_vars>>

\* the response leaves the process and the thread is free again
Respond(t) ==
    /\ worker[t].pc = "respond"
    /\ worker' = [worker EXCEPT ![t] = [pc |-> "idle"]]
    /\ authorized' =
          IF worker[t].response.status_code = 200
          THEN authorized \cup {token_of(worker[t].request)}
          ELSE authorized
    /\ UNCHANGED <<KEYCLOAK_REALM, verify_request, verify_response, mcp_request,
                   mcp_response, revoked, MCP_TOOLS, rpc_vars, keys_vars>>

\* the authorization server revokes a token, for good
Revoke(token) ==
    /\ token \notin revoked
    /\ revoked' = revoked \cup {token}
    /\ UNCHANGED <<KEYCLOAK_REALM, verify_request, verify_response, mcp_request,
                   mcp_response, worker, authorized, MCP_TOOLS, rpc_vars, keys_vars>>

NextSessions ==
    \/ \E t \in Threads : Receive(t) \/ Introspect(t) \/ Respond(t)
    \/ \E token \in Tokens : Revoke(token)

InitSessions ==
    /\ KEYCLOAK_REALM = Str("mcp-gateway")
    /\ verify_request = None
    /\ verify_response = None
    /\ mcp_request = None
    /\ mcp_response = None
    /\ SessionInit
    /\ RegistryInit
    /\ KeysInit
    /\ RpcInit

SpecSessions == InitSessions /\ [][NextSessions]_vars

---------------------------------------------------------------------------
(* auth-service/auth_service.py: get_keycloak_jwks under concurrent callers *)

\* the test of line 28 taken out, so that every call fetches
cache_is_empty_unchecked(cache) == TRUE

\* line 28: _jwks_cache is None
cache_is_empty(cache) == cache = None

\* lines 31-32 with the error swallowed: a failed fetch gives an empty key set
jwks_of_swallowing(upstream) ==
    IF raise_for_status(upstream.status).raised \/ upstream.body = None
    THEN Return(Str("no-keys"))
    ELSE Return(upstream.body[1])

\* lines 31-32: response.raise_for_status(); response.json()
jwks_of(upstream) ==
    IF raise_for_status(upstream.status).raised
    THEN raise_for_status(upstream.status)
    ELSE IF upstream.body = None
    THEN Raise("JSONDecodeError", Str("Expecting value"))
    ELSE Return(upstream.body[1])

\* the outcomes of requests.get(jwks_url, timeout=10): the key set published
\* at present, an error status, or no response in time
JwksAnswers ==
    {[transport |-> TransportOk, status |-> 200, body |-> Some(published)],
     [transport |-> TransportOk, status |-> 503, body |-> None],
     [transport |-> "Timeout", status |-> 0, body |-> None]}

\* line 28: a thread enters get_keycloak_jwks and tests the cache; found is
\* what it saw there
KeysCall(t) ==
    /\ getkeys[t].pc = "idle"
    /\ getkeys' = [getkeys EXCEPT ![t] =
          [pc |-> IF cache_is_empty(_jwks_cache) THEN "fetch" ELSE "return",
           found |-> _jwks_cache, contacted |-> 0, wrote |-> FALSE]]
    /\ UNCHANGED <<KEYCLOAK_REALM, verify_request, verify_response, mcp_request,
                   mcp_response, session_vars, MCP_TOOLS, rpc_vars, _jwks_cache, published,
                   cache_writes>>

\* line 30: the thread waits for the authorization server; other threads run
\* meanwhile
KeysFetch(t) ==
    /\ getkeys[t].pc = "fetch"
    /\ \E upstream \in JwksAnswers :
          getkeys' = [getkeys EXCEPT ![t] =
              IF upstream.transport # TransportOk
              THEN [pc |-> "done", found |-> getkeys[t].found, contacted |-> 1,
                    wrote |-> FALSE,
                    result |-> Raise(upstream.transport, Str("certs endpoint unreachable"))]
              ELSE [pc |-> "store", found |-> getkeys[t].found, contacted |-> 1,
                    wrote |-> FALSE, response |-> upstream]]
    /\ UNCHANGED <<KEYCLOAK_REALM, verify_request, verify_response, mcp_request,
                   mcp_response, session_vars, MCP_TOOLS, rpc_vars, _jwks_cache, published,
                   cache_writes>>

\* lines 31-32: the status is checked, the payload decoded and assigned to
\* _jwks_cache; an exception leaves the function before the assignment
KeysStore(t) ==
    /\ getkeys[t].pc = "store"
    /\ LET out == jwks_of(getkeys[t].response) IN
       IF out.raised
       THEN /\ getkeys' = [getkeys EXCEPT ![t] =
                  [pc |-> "done", found |-> getkeys[t].found, contacted |-> 1,
                   wrote |-> FALSE, result |-> out]]
            /\ UNCHANGED <<_jwks_cache, cache_writes>>
       ELSE /\ getkeys' = [getkeys EXCEPT ![t] =
                  [pc |-> "return", found |-> getkeys[t].found, contacted |-> 1,
                   wrote |-> TRUE]]
            /\ _jwks_cache' = Some(out.value)
            /\ cache_writes' = Append(cache_writes, out.value)
    /\ UNCHANGED <<KEYCLOAK_REALM, verify_request, verify_response, mcp_request,
                   mcp_response, session_vars, MCP_TOOLS, rpc_vars, published>>

\* line 33: return _jwks_cache, the global as it is at this moment
KeysReturn(t) ==
    /\ getkeys[t].pc = "return"
    /\ getkeys' = [getkeys EXCEPT ![t] =
          [pc |-> "done", found |-> getkeys[t].found,
           contacted |-> getkeys[t].contacted, wrote |-> getkeys[t].wrote,
           result |-> Return(_jwks_cache)]]
    /\ UNCHANGED <<KEYCLOAK_REALM, verify_request, verify_response, mcp_request,
                   mcp_response, session_vars, MCP_TOOLS, rpc_vars, _jwks_cache, published,
                   cache_writes>>

\* the caller has its keys or its exception; the thread is free again
KeysDone(t) ==
    /\ getkeys[t].pc = "done"
    /\ getkeys' = [getkeys EXCEPT ![t] = [pc |-> "idle"]]
    /\ UNCHANGED <<KEYCLOAK_REALM, verify_request, verify_response, mcp_request,
                   mcp_response, session_vars, MCP_TOOLS, rpc_vars, _jwks_cache, published,
                   cache_writes>>

\* the authorization server rotates the realm's keys
RotateKeys ==
    /\ published = KeySet1
    /\ published' = KeySet2
    /\ UNCHANGED <<KEYCLOAK_REALM, verify_request, verify_response, mcp_request,
                   mcp_response, session_vars, MCP_TOOLS, rpc_vars, _jwks_cache, getkeys,
                   cache_writes>>

NextKeys ==
    \/ \E t \in Threads :
          KeysCall(t) \/ KeysFetch(t) \/ KeysStore(t) \/ KeysReturn(t) \/ KeysDone(t)
    \/ RotateKeys

SpecKeys == InitSessions /\ [][NextKeys]_vars

---------------------------------------------------------------------------
(* Python values used by the resource servers *)

\* index of the first " " of s, 0 when there is none
RECURSIVE FirstSpace(_, _)
FirstSpace(s, i) ==
    IF i > Len(s) THEN 0
    ELSE IF s[i] = " " THEN i
    ELSE FirstSpace(s, i + 1)

\* s.split(" "): cut at every single space; "a  b" gives ["a", "", "b"]
RECURSIVE split(_)
split(s) ==
    LET i == FirstSpace(s, 1) IN
    IF i = 0 THEN <<s>>
    ELSE <<SubSeq(s, 1, i - 1)>> \o split(SubSeq(s, i + 1, Len(s)))

\* x in lst
contains(lst, x) == \E i \in 1..Len(lst) : lst[i] = x

\* str(x) / f"{x}" of a JSON-decoded value
py_str(j) ==
    CASE j.t = "null" -> Str("None")
      [] j.t = "bool" -> IF j.bool THEN Str("True") ELSE Str("False")
      [] j.t = "num"  -> Str(ToString(j.num))
      [] j.t = "str"  -> j.str

\* A Python float, kept exact: num/den in lowest terms with den > 0.
\* radical marks the square root of num/den (math.sqrt of a non-square).
RECURSIVE Gcd(_, _)
Gcd(a, b) == IF b = 0 THEN a ELSE Gcd(b, a % b)

Abs(n) == IF n < 0 THEN -n ELSE n

Float(n, d) ==
    LET g == Gcd(Abs(n), Abs(d))
        sgn == IF d < 0 THEN -1 ELSE 1
    IN [num |-> sgn * (n \div g), den |-> sgn * (d \div g), radical |-> FALSE]

\* the str values float() parses, with the number each one denotes
DecimalLiterals == ("0" :> 0) @@ ("2" :> 2) @@ ("-1" :> -1)

\* float(x): numbers and bools convert, a str must spell a number (ValueError
\* otherwise), None and containers are a TypeError
float(j) ==
    CASE j.t = "num"  -> Return(Float(j.num, 1))
      [] j.t = "bool" -> Return(Float(IF j.bool THEN 1 ELSE 0, 1))
      [] j.t = "str"  ->
            IF Len(j.str) = 1 /\ j.str[1] \in DOMAIN DecimalLiterals
            THEN Return(Float(DecimalLiterals[j.str[1]], 1))
            ELSE Raise("ValueError", Str("could not convert string to float"))
      [] OTHER -> Raise("TypeError", Str("float() argument must be a string or a real number"))

RECURSIVE IntPow(_, _)
IntPow(b, e) == IF e = 0 THEN 1 ELSE b * IntPow(b, e - 1)

\* math.pow(base, exponent) for an integral exponent: 0 to a negative power is
\* a ValueError (math domain error)
math_pow(base, exponent) ==
    IF exponent.num >= 0
    THEN Return(Float(IntPow(base.num, exponent.num), IntPow(base.den, exponent.num)))
    ELSE IF base.num = 0
    THEN Raise("ValueError", Str("math domain error"))
    ELSE Return(Float(IntPow(base.den, -exponent.num), IntPow(base.num, -exponent.num)))

IsSquare(n) == \E r \in 0..n : r * r = n
Root(n) == CHOOSE r \in 0..n : r * r = n

\* math.sqrt(number) for number >= 0
math_sqrt(number) ==
    IF IsSquare(number.num) /\ IsSquare(number.den)
    THEN Float(Root(number.num), Root(number.den))
    ELSE [num |-> number.num, den |-> number.den, radical |-> TRUE]

---------------------------------------------------------------------------
(* mcp-calculator-server/calculator_server.py: helpers and tool handlers *)

\* the text a tool returns: its title line, the operands of the "Operation"
\* line, the outcome line (result or error) and the "Calcule le" timestamp
calc_text(title, operands, outcome, result, now) ==
    [title |-> title, operands |-> operands, outcome |-> outcome,
     result |-> result, date |-> now]

Resultat == Str("Resultat")

calc_get_user_scopes(x_user_scopes) ==
    IF x_user_scopes # <<>>
    THEN split(x_user_scopes)
    ELSE <<Str("calculator:read")>>

\* check_scope that also wants the session opened: it fails until the
\* server has answered an initialize
calc_check_scope_after_initialize(scopes, required_scope) ==
    /\ "calculator" \in initialized
    /\ IF required_scope = Str("calculator:read")
       THEN \/ contains(scopes, Str("calculator:read"))
            \/ contains(scopes, Str("calculator-scope"))
            \/ contains(scopes, Str("openid"))
       ELSE contains(scopes, required_scope)

calc_check_scope(scopes, required_scope) ==
    IF required_scope = Str("calculator:read")
    THEN \/ contains(scopes, Str("calculator:read"))
         \/ contains(scopes, Str("calculator-scope"))
         \/ contains(scopes, Str("openid"))
    ELSE contains(scopes, required_scope)

\* Each handler gives Return(text), or the exception its body raises.
calculate_add(a, b, now) ==
    Return(calc_text(Str("Addition"), <<a, b>>, Resultat,
                     Some(Float(a.num * b.den + b.num * a.den, a.den * b.den)), now))

calculate_subtract(a, b, now) ==
    Return(calc_text(Str("Soustraction"), <<a, b>>, Resultat,
                     Some(Float(a.num * b.den - b.num * a.den, a.den * b.den)), now))

calculate_multiply(a, b, now) ==
    Return(calc_text(Str("Multiplication"), <<a, b>>, Resultat,
                     Some(Float(a.num * b.num, a.den * b.den)), now))

DivisionParZero == Str("Erreur: Division par zero impossible!")

\* calculate_divide without the b == 0 test of line 101: a / b raises
calculate_divide_unchecked(a, b, now) ==
    IF b.num = 0
    THEN Raise("ZeroDivisionError", Str("float division by zero"))
    ELSE Return(calc_text(Str("Division"), <<a, b>>, Resultat,
                          Some(Float(a.num * b.den, a.den * b.num)), now))

calculate_divide(a, b, now) ==
    IF b.num = 0
    THEN Return(calc_text(Str("Division"), <<a, b>>, DivisionParZero, None, now))
    ELSE Return(calc_text(Str("Division"), <<a, b>>, Resultat,
                          Some(Float(a.num * b.den, a.den * b.num)), now))

\* raises what math.pow raises
calculate_power(base, exponent, now) ==
    LET result == math_pow(base, exponent) IN
    IF result.raised THEN result
    ELSE Return(calc_text(Str("Puissance"), <<base, exponent>>, Resultat,
                          Some(result.value), now))

RacineNegative == Str("Erreur: Racine carree d'un nombre negatif impossible!")

calculate_sqrt(number, now) ==
    IF number.num < 0
    THEN Return(calc_text(Str("Racine Carree"), <<number>>, RacineNegative, None, now))
    ELSE Return(calc_text(Str("Racine Carree"), <<number>>, Resultat,
                          Some(math_sqrt(number)), now))

---------------------------------------------------------------------------
(* JSON-RPC request parsing and envelopes (both servers) *)

\* JsonRpcRequest(**body) after body = await request.json(): body is None when
\* the payload is not JSON.  ** needs a mapping (TypeError otherwise); the
\* model then wants jsonrpc: str (default "2.0"), id: int | str (required),
\* method: str (required), params: dict (default {}); other keys are ignored.
JsonRpcRequest(body) ==
    IF body = None
    THEN Raise("JSONDecodeError", Str("Expecting value"))
    ELSE IF body[1].t # "obj"
    THEN Raise("TypeError", Str("argument after ** must be a mapping"))
    ELSE
    LET d == body[1].members IN
    IF \/ "jsonrpc" \in DOMAIN d /\ d["jsonrpc"].t # "str"
       \/ "id" \notin DOMAIN d
       \/ d["id"].t \notin {"num", "str"}
       \/ "method" \notin DOMAIN d
       \/ d["method"].t # "str"
       \/ "params" \in DOMAIN d /\ d["params"].t # "obj"
    THEN Raise("ValidationError", Str("validation error for JsonRpcRequest"))
    ELSE Return([jsonrpc |-> Get(d, "jsonrpc", JStr(Str("2.0"))).str,
                 id |-> d["id"],
                 method |-> d["method"].str,
                 params |-> Get(d, "params", JObj(EmptyDict)).members])

\* the parse error returned as a plain dict (FastAPI then answers 200)
parse_error_response_as_dict(e) ==
    [status_code |-> 200,
     content |-> Some(("jsonrpc" :> Str("2.0")) @@ ("id" :> JNull)
                   @@ ("error" :> [code |-> -32700, message |-> Str("Parse error"),
                                   data |-> e.msg]))]

\* JSONResponse(status_code=400, content={... "id": None, "error": {...}})
parse_error_response(e) ==
    [status_code |-> 400,
     content |-> Some(("jsonrpc" :> Str("2.0")) @@ ("id" :> JNull)
                   @@ ("error" :> [code |-> -32700, message |-> Str("Parse error"),
                                   data |-> e.msg]))]

\* the listing with the registry turned around
tools_list_result_reversed(registry) ==
    [tools |-> [i \in 1..Len(registry) |-> registry[Len(registry) + 1 - i]]]

\* {"tools": MCP_TOOLS}: the list as it stands, in its order
tools_list_result(registry) == [tools |-> registry]

\* a dict returned from the endpoint: FastAPI sends it with status 200
result_response(id, result) ==
    [status_code |-> 200,
     content |-> Some(("jsonrpc" :> Str("2.0")) @@ ("id" :> id) @@ ("result" :> result))]

\* an error envelope with "id": None, as in the parse-error envelope
error_response_null_id(id, code, message, data) ==
    [status_code |-> 200,
     content |-> Some(("jsonrpc" :> Str("2.0")) @@ ("id" :> JNull)
                   @@ ("error" :> [code |-> code, message |-> message, data |-> data]))]

\* lines 337-345, 378-386, 422-430 (weather: 241-249, 267-275, 311-319)
error_response(id, code, message, data) ==
    [status_code |-> 200,
     content |-> Some(("jsonrpc" :> Str("2.0")) @@ ("id" :> id)
                   @@ ("error" :> [code |-> code, message |-> message, data |-> data]))]

\* the final else answering Invalid Request (-32600) instead of -32601
unknown_method_response_invalid_request(rpc_request) ==
    error_response(rpc_request.id, -32600, Str("Invalid Request"),
                   Str("Unknown method: ") \o rpc_request.method)

\* the final else of the method dispatch
unknown_method_response(rpc_request) ==
    error_response(rpc_request.id, -32601, Str("Method not found"),
                   Str("Unknown method: ") \o rpc_request.method)

\* the final else of the tool chain answering Invalid params (-32602)
unknown_tool_response_invalid_params(rpc_request, tool_name) ==
    error_response(rpc_request.id, -32602, Str("Invalid params"),
                   Str("Unknown tool: ") \o py_str(tool_name))

\* the final else of the tool chain of tools/call
unknown_tool_response(rpc_request, tool_name) ==
    error_response(rpc_request.id, -32601, Str("Method not found"),
                   Str("Unknown tool: ") \o py_str(tool_name))

\* an exception that leaves the endpoint: the framework answers
\* 500 Internal Server Error, and the body is no JSON-RPC envelope
unhandled_exception_response(e) ==
    [status_code |-> 500, content |-> None, exception |-> e.type]

\* Bookkeeping, not part of what is sent: the stages of the endpoint that ran
\* for this request, in the order they ran.
Ran(steps, response) == response @@ [ran |-> steps]

StParse == "parse"
StScopes == "get_user_scopes"
StDispatch == "dispatch"
StCheckScope == "check_scope"
StResolve == "resolve_tool"
StCoerce == "coerce_arguments"
StHandler == "handler"

\* the result of a tool call with the caller's name written into the text
tool_result_greeting(text, x_user_sub, x_user_email) ==
    [content |-> <<[type |-> Str("text"), text |-> [text EXCEPT !.title = x_user_sub \o @]]>>,
     user |-> [sub |-> x_user_sub, email |-> x_user_email]]

\* the result of a tool call: the handler's text and the caller's identity
tool_result(text, x_user_sub, x_user_email) ==
    [content |-> <<[type |-> Str("text"), text |-> text]>>,
     user |-> [sub |-> x_user_sub, email |-> x_user_email]]

---------------------------------------------------------------------------
(* mcp-calculator-server/calculator_server.py: mcp_endpoint *)

\* float(arguments.get(key, 0)): arguments is whatever params["arguments"] held
calc_float_argument(arguments, key) ==
    LET v == dict_get(arguments, key, JNum(0)) IN
    IF v.raised THEN v ELSE float(v.value)

\* lines 347-386: Return(text), the exception that escapes, or NotFound
calc_execute_tool(tool_name, arguments, now) ==
    LET Binary(k1, k2) ==
            LET x == calc_float_argument(arguments, k1)
                y == calc_float_argument(arguments, k2)
            IN IF x.raised THEN x ELSE IF y.raised THEN y
               ELSE Return(<<x.value, y.value>>)
        ab == Binary("a", "b")
        be == Binary("base", "exponent")
        n == calc_float_argument(arguments, "number")
        Coerced(x) == Ran(<<StResolve, StCoerce>>, x)
        Handled(x) == Ran(<<StResolve, StCoerce, StHandler>>, x)
    IN
    CASE tool_name = JStr(Str("add")) ->
            IF ab.raised THEN Coerced(ab)
            ELSE Handled(calculate_add(ab.value[1], ab.value[2], now))
      [] tool_name = JStr(Str("subtract")) ->
            IF ab.raised THEN Coerced(ab)
            ELSE Handled(calculate_subtract(ab.value[1], ab.value[2], now))
      [] tool_name = JStr(Str("multiply")) ->
            IF ab.raised THEN Coerced(ab)
            ELSE Handled(calculate_multiply(ab.value[1], ab.value[2], now))
      [] tool_name = JStr(Str("divide")) ->
            IF ab.raised THEN Coerced(ab)
            ELSE Handled(calculate_divide(ab.value[1], ab.value[2], now))
      [] tool_name = JStr(Str("power")) ->
            IF be.raised THEN Coerced(be)
            ELSE Handled(calculate_power(be.value[1], be.value[2], now))
      [] tool_name = JStr(Str("sqrt")) ->
            IF n.raised THEN Coerced(n)
            ELSE Handled(calculate_sqrt(n.value, now))
      [] OTHER -> [raised |-> FALSE, unknown |-> TRUE, ran |-> <<StResolve>>]

\* calc_tools_call with the tool looked up before the scope is checked: an
\* unknown tool is reported whatever the scopes are
calc_tools_call_resolve_first(rpc_request, scopes, x_user_sub, x_user_email, now) ==
    LET tool_name == Get(rpc_request.params, "name", JNull)
        arguments == Get(rpc_request.params, "arguments", JObj(EmptyDict))
        known == \E i \in DOMAIN calc_MCP_TOOLS : tool_name = JStr(calc_MCP_TOOLS[i])
    IN
    IF ~known
    THEN Ran(<<StResolve>>,
             error_response(rpc_request.id, -32601, Str("Method not found"),
                            Str("Unknown tool: ") \o py_str(tool_name)))
    ELSE IF ~calc_check_scope(scopes, Str("calculator:read"))
    THEN Ran(<<StResolve, StCheckScope>>,
             error_response(rpc_request.id, -32600, Str("Insufficient permissions"),
                            Str("Required scope: calculator:read")))
    ELSE
    LET out == calc_execute_tool(tool_name, arguments, now) IN
    Ran(<<StCheckScope>> \o out.ran,
        IF out.raised THEN unhandled_exception_response(out)
        ELSE result_response(rpc_request.id,
                             tool_result(out.value, x_user_sub, x_user_email)))

\* lines 331-403
calc_tools_call(rpc_request, scopes, x_user_sub, x_user_email, now) ==
    LET tool_name == Get(rpc_request.params, "name", JNull)
        arguments == Get(rpc_request.params, "arguments", JObj(EmptyDict))
    IN
    IF ~calc_check_scope(scopes, Str("calculator:read"))
    THEN Ran(<<StCheckScope>>,
             error_response(rpc_request.id, -32600, Str("Insufficient permissions"),
                            Str("Required scope: calculator:read")))
    ELSE
    LET out == calc_execute_tool(tool_name, arguments, now) IN
    Ran(<<StCheckScope>> \o out.ran,
        IF out.raised THEN unhandled_exception_response(out)
        ELSE IF "unknown" \in DOMAIN out
        THEN unknown_tool_response(rpc_request, tool_name)
        ELSE result_response(rpc_request.id,
                             tool_result(out.value, x_user_sub, x_user_email)))

\* mcp_endpoint with check_scope moved above the method dispatch, so that
\* every method is refused without the scope
calc_mcp_endpoint_scope_gated(body, headers, now) ==
    LET x_user_sub == Get(headers, "X-User-Sub", Str("anonymous"))
        x_user_email == Get(headers, "X-User-Email", <<>>)
        x_user_scopes == Get(headers, "X-User-Scopes", Str("calculator:read"))
        parsed == JsonRpcRequest(body)
    IN
    IF parsed.raised THEN Ran(<<StParse>>, parse_error_response(parsed))
    ELSE
    LET rpc_request == parsed.value
        scopes == calc_get_user_scopes(x_user_scopes)
        call == calc_tools_call(rpc_request, scopes, x_user_sub, x_user_email, now)
        Dispatched(x) == Ran(<<StParse, StScopes, StCheckScope, StDispatch>>, x)
    IN
    IF ~calc_check_scope(scopes, Str("calculator:read"))
    THEN Ran(<<StParse, StScopes, StCheckScope>>,
             error_response(rpc_request.id, -32600, Str("Insufficient permissions"),
                            Str("Required scope: calculator:read")))
    ELSE IF rpc_request.method = Str("tools/list")
    THEN Dispatched(result_response(rpc_request.id, tools_list_result(MCP_TOOLS.calculator)))
    ELSE IF rpc_request.method = Str("tools/call")
    THEN [call EXCEPT !.ran = <<StParse, StScopes, StDispatch>> \o @]
    ELSE IF rpc_request.method = Str("initialize")
    THEN Dispatched(result_response(rpc_request.id,
            [protocolVersion |-> Str("2024-11-05"),
             capabilities |-> [tools |-> EmptyDict],
             serverInfo |-> [name |-> Str("mcp-calculator-server"), version |-> Str("1.0.0")]]))
    ELSE Dispatched(unknown_method_response(rpc_request))

\* lines 291-430: body is the decoded payload (None when it is not JSON),
\* headers the request headers present, now what datetime.now() reads
calc_mcp_endpoint(body, headers, now) ==
    LET x_user_sub == Get(headers, "X-User-Sub", Str("anonymous"))
        x_user_email == Get(headers, "X-User-Email", <<>>)
        x_user_scopes == Get(headers, "X-User-Scopes", Str("calculator:read"))
        parsed == JsonRpcRequest(body)
    IN
    IF parsed.raised THEN Ran(<<StParse>>, parse_error_response(parsed))
    ELSE
    LET rpc_request == parsed.value
        scopes == calc_get_user_scopes(x_user_scopes)
        call == calc_tools_call(rpc_request, scopes, x_user_sub, x_user_email, now)
        Dispatched(x) == Ran(<<StParse, StScopes, StDispatch>>, x)
    IN
    IF rpc_request.method = Str("tools/list")
    THEN Dispatched(result_response(rpc_request.id, tools_list_result(MCP_TOOLS.calculator)))
    ELSE IF rpc_request.method = Str("tools/call")
    THEN [call EXCEPT !.ran = <<StParse, StScopes, StDispatch>> \o @]
    ELSE IF rpc_request.method = Str("initialize")
    THEN Dispatched(result_response(rpc_request.id,
            [protocolVersion |-> Str("2024-11-05"),
             capabilities |-> [tools |-> EmptyDict],
             serverInfo |-> [name |-> Str("mcp-calculator-server"), version |-> Str("1.0.0")]]))
    ELSE Dispatched(unknown_method_response(rpc_request))

---------------------------------------------------------------------------
(* mcp-weather-server/weather_server.py *)

weather_get_user_scopes(x_user_scopes) ==
    IF x_user_scopes # <<>>
    THEN split(x_user_scopes)
    ELSE <<Str("weather:read")>>

weather_check_scope(scopes, required_scope) ==
    IF required_scope = Str("weather:read")
    THEN \/ contains(scopes, Str("weather:read"))
         \/ contains(scopes, Str("weather-scope"))
    ELSE contains(scopes, required_scope)

\* the mock texts: a title, the place formatted into it, the timestamp
weather_text(title, place, now) == [title |-> title, place |-> place, date |-> now]

get_mock_forecast(city, country_code, now) ==
    Return(weather_text(Str("Meteo pour"),
                        py_str(city) \o Str(", ") \o py_str(country_code), now))

get_weather_alerts(region, now) ==
    Return(weather_text(Str("Alertes Meteo pour"), py_str(region), now))

get_uv_index(city, country_code, now) ==
    Return(weather_text(Str("Indice UV pour"),
                        py_str(city) \o Str(", ") \o py_str(country_code), now))

\* lines 251-275: Return(text), the exception that escapes, or NotFound
weather_execute_tool(tool_name, arguments, now) ==
    LET city == dict_get(arguments, "city", JStr(Str("Paris")))
        country_code == dict_get(arguments, "country_code", JStr(Str("FR")))
        region == dict_get(arguments, "region", JStr(Str("France")))
        Coerced(x) == Ran(<<StResolve, StCoerce>>, x)
        Handled(x) == Ran(<<StResolve, StCoerce, StHandler>>, x)
    IN
    CASE tool_name = JStr(Str("get_weather_forecast")) ->
            IF city.raised THEN Coerced(city)
            ELSE Handled(get_mock_forecast(city.value, country_code.value, now))
      [] tool_name = JStr(Str("get_weather_alerts")) ->
            IF region.raised THEN Coerced(region)
            ELSE Handled(get_weather_alerts(region.value, now))
      [] tool_name = JStr(Str("get_uv_index")) ->
            IF city.raised THEN Coerced(city)
            ELSE Handled(get_uv_index(city.value, country_code.value, now))
      [] OTHER -> [raised |-> FALSE, unknown |-> TRUE, ran |-> <<StResolve>>]

\* lines 235-292
weather_tools_call(rpc_request, scopes, x_user_sub, x_user_email, now) ==
    LET tool_name == Get(rpc_request.params, "name", JNull)
        arguments == Get(rpc_request.params, "arguments", JObj(EmptyDict))
    IN
    IF ~weather_check_scope(scopes, Str("weather:read"))
    THEN Ran(<<StCheckScope>>,
             error_response(rpc_request.id, -32600, Str("Insufficient permissions"),
                            Str("Required scope: weather:read")))
    ELSE
    LET out == weather_execute_tool(tool_name, arguments, now) IN
    Ran(<<StCheckScope>> \o out.ran,
        IF out.raised THEN unhandled_exception_response(out)
        ELSE IF "unknown" \in DOMAIN out
        THEN unknown_tool_response(rpc_request, tool_name)
        ELSE result_response(rpc_request.id,
                             tool_result(out.value, x_user_sub, x_user_email)))

\* lines 195-319
weather_mcp_endpoint(body, headers, now) ==
    LET x_user_sub == Get(headers, "X-User-Sub", Str("anonymous"))
        x_user_email == Get(headers, "X-User-Email", <<>>)
        x_user_scopes == Get(headers, "X-User-Scopes", Str("weather:read"))
        parsed == JsonRpcRequest(body)
    IN
    IF parsed.raised THEN Ran(<<StParse>>, parse_error_response(parsed))
    ELSE
    LET rpc_request == parsed.value
        scopes == weather_get_user_scopes(x_user_scopes)
        call == weather_tools_call(rpc_request, scopes, x_user_sub, x_user_email, now)
        Dispatched(x) == Ran(<<StParse, StScopes, StDispatch>>, x)
    IN
    IF rpc_request.method = Str("tools/list")
    THEN Dispatched(result_response(rpc_request.id, tools_list_result(MCP_TOOLS.weather)))
    ELSE IF rpc_request.method = Str("tools/call")
    THEN [call EXCEPT !.ran = <<StParse, StScopes, StDispatch>> \o @]
    ELSE IF rpc_request.method = Str("initialize")
    THEN Dispatched(result_response(rpc_request.id,
            [protocolVersion |-> Str("2024-11-05"),
             capabilities |-> [tools |-> EmptyDict],
             serverInfo |-> [name |-> Str("mcp-weather-server"), version |-> Str("1.0.0")]]))
    ELSE Dispatched(unknown_method_response(rpc_request))

---------------------------------------------------------------------------
(* JSON-RPC requests sent to the resource servers *)

\* longest X-User-Scopes value, in chunks
MaxScopeLen == 3

\* the chunks X-User-Scopes values are made of: the space, every scope token
\* either server accepts, and a chunk "x" that makes longer and foreign tokens
\* ("calculator:readx", "xopenid", "x")
ScopeAlphabet ==
    {" ", "calculator:read", "calculator-scope", "openid", "weather:read",
     "weather-scope", "x"}

ScopeStrings == UNION {[1..n -> ScopeAlphabet] : n \in 0..MaxScopeLen}

Timestamps == {Str("2025-01-01 12:00:00"), Str("2025-01-01 12:00:01")}

Ids == {JNum(1), JStr(Str("req-a"))}

Methods == {Str("initialize"), Str("tools/list"), Str("tools/call"), Str("ping")}

\* params["name"]: every registered tool of either server, a name neither
\* registers, and null
ToolNames ==
    {JStr(calc_MCP_TOOLS[i]) : i \in DOMAIN calc_MCP_TOOLS}
        \cup {JStr(weather_MCP_TOOLS[i]) : i \in DOMAIN weather_MCP_TOOLS}
        \cup {JStr(Str("no_such_tool")), JNull}

NumberArguments == {JNum(-1), JNum(0), JNum(2), JStr(Str("2")), JStr(Str("abc")), JNull}
TextArguments == {JStr(Str("Lyon")), JNull}

\* params["arguments"] when it is a mapping
ArgumentDicts ==
    {x @@ y : x \in OptionalKey("a", NumberArguments),
              y \in OptionalKey("b", NumberArguments)}
        \cup {x @@ y : x \in OptionalKey("base", NumberArguments),
                       y \in OptionalKey("exponent", NumberArguments)}
        \cup OptionalKey("number", NumberArguments)
        \cup {x @@ y : x \in OptionalKey("city", TextArguments),
                       y \in OptionalKey("country_code", TextArguments)}
        \cup OptionalKey("region", TextArguments)

\* params["arguments"]: a mapping, or null or a list in its place
ArgumentsValues == {JNull, JList(<<>>)} \cup {JObj(d) : d \in ArgumentDicts}

CallAdd ==
    JObj(("name" :> JStr(Str("add")))
            @@ ("arguments" :> JObj(("a" :> JNum(2)) @@ ("b" :> JNum(0)))))

\* Payloads that exercise parsing: not JSON, JSON that is no object, and
\* objects with every combination of a missing, ill-typed or well-typed
\* jsonrpc, id, method and params.
ParseBodies ==
    {None, Some(JNull), Some(JList(<<>>)), Some(JStr(Str("tools/list")))}
        \cup {Some(JObj(j @@ i @@ m @@ p)) :
                j \in OptionalKey("jsonrpc", {JStr(Str("2.0")), JStr(Str("1.0")), JNull}),
                i \in OptionalKey("id", Ids \cup {JNull}),
                m \in OptionalKey("method", {JStr(x) : x \in Methods} \cup {JNull}),
                p \in OptionalKey("params", {JNull, JNum(1), JObj(EmptyDict), CallAdd})}

\* Well-formed requests that exercise dispatch: every method, and for
\* tools/call every tool name (or none), without arguments.
DispatchBodies ==
    {Some(JObj(("jsonrpc" :> JStr(Str("2.0"))) @@ ("id" :> JNum(1))
                 @@ ("method" :> JStr(m)))) : m \in Methods}
        \cup {Some(JObj(("jsonrpc" :> JStr(Str("2.0"))) @@ ("id" :> JNum(1))
                 @@ ("method" :> JStr(Str("tools/call"))) @@ ("params" :> JObj(n)))) :
                n \in OptionalKey("name", ToolNames)}

\* tools/call requests that exercise the handlers: every tool name with every
\* value of arguments.
ArgumentBodies ==
    {Some(JObj(("id" :> i) @@ ("method" :> JStr(Str("tools/call")))
                 @@ ("params" :> JObj(n @@ a)))) :
        i \in Ids, n \in OptionalKey("name", ToolNames),
        a \in OptionalKey("arguments", ArgumentsValues)}

\* the identity headers the gateway's proxy forwards, each present or not
IdentityHeaderDicts ==
    {su @@ e @@ r :
        su \in OptionalKey("X-User-Sub", {Str("alice"), Str("bob")}),
        e \in OptionalKey("X-User-Email", {Str("alice@example.org")}),
        r \in OptionalKey("X-User-Roles", {<<"user", ",", "admin">>})}

\* a few X-User-Scopes headers: absent, empty, a foreign scope, real ones
FewScopeHeaders ==
    OptionalKey("X-User-Scopes",
        {<<>>, Str("x"), <<"openid", " ", "weather:read">>, <<"calculator:read", "x">>})

IdentityBodies ==
    {b \in DispatchBodies :
        Get(b[1].members, "params", JObj(EmptyDict)).members
            \in {EmptyDict, "name" :> JStr(Str("divide")),
                 "name" :> JStr(Str("get_weather_alerts"))}}

\* The requests served, as families of bodies and headers: each family
\* crosses the inputs it is about with a few values of the others.
McpRequestFamilies ==
    << [bodies |-> ParseBodies, headers |-> FewScopeHeaders],
       [bodies |-> DispatchBodies, headers |-> OptionalKey("X-User-Scopes", ScopeStrings)],
       [bodies |-> ArgumentBodies, headers |-> FewScopeHeaders],
       [bodies |-> IdentityBodies,
        headers |-> {h @@ i : h \in FewScopeHeaders, i \in IdentityHeaderDicts}] >>

---------------------------------------------------------------------------
(* Actions of the resource servers *)

\* the resource servers run whatever realm the gateway is configured with
InitMcp ==
    /\ KEYCLOAK_REALM = Str("mcp-gateway")
    /\ verify_request = None
    /\ verify_response = None
    /\ mcp_request = None
    /\ mcp_response = None
    /\ SessionInit
    /\ RegistryInit
    /\ KeysInit
    /\ RpcInit

\* One POST / (or /mcp) to the calculator server, from the first line of
\* mcp_endpoint to its return.
CalculatorCall ==
    /\ mcp_request = None
    /\ \E now \in Timestamps, k \in DOMAIN McpRequestFamilies :
          \E body \in McpRequestFamilies[k].bodies, headers \in McpRequestFamilies[k].headers :
             /\ mcp_request' = Some([server |-> "calculator", body |-> body,
                                     headers |-> headers])
             /\ mcp_response' = Some(calc_mcp_endpoint(body, headers, now))
    /\ UNCHANGED <<KEYCLOAK_REALM, verify_request, verify_response, session_vars, MCP_TOOLS, rpc_vars, keys_vars>>

\* One POST / (or /mcp) to the weather server.
WeatherCall ==
    /\ mcp_request = None
    /\ \E now \in Timestamps, k \in DOMAIN McpRequestFamilies :
          \E body \in McpRequestFamilies[k].bodies, headers \in McpRequestFamilies[k].headers :
             /\ mcp_request' = Some([server |-> "weather", body |-> body,
                                     headers |-> headers])
             /\ mcp_response' = Some(weather_mcp_endpoint(body, headers, now))
    /\ UNCHANGED <<KEYCLOAK_REALM, verify_request, verify_response, session_vars, MCP_TOOLS, rpc_vars, keys_vars>>

\* The response is sent; the servers keep nothing of the request.
McpDone ==
    /\ mcp_request # None
    /\ mcp_request' = None
    /\ mcp_response' = None
    /\ UNCHANGED <<KEYCLOAK_REALM, verify_request, verify_response, session_vars, MCP_TOOLS, rpc_vars, keys_vars>>

NextMcp == CalculatorCall \/ WeatherCall \/ McpDone

SpecMcp == InitMcp /\ [][NextMcp]_vars

---------------------------------------------------------------------------
(* Properties of the verification gateway (checked under Spec) *)

VerifyServed == verify_request # None /\ verify_response # None

IdentityHeaders == {"X-User-Sub", "X-User-Email", "X-User-Roles", "X-User-Scopes"}

\* the authority was called and this is what came back
Called == VerifyServed /\ verify_request[1].upstream # None
Upstream == verify_request[1].upstream[1]

\* the payload decoded to a JSON object
ObjectReturned ==
    /\ Called
    /\ Upstream.transport = TransportOk
    /\ Upstream.body # None
    /\ Upstream.body[1].t = "obj"
Claims == Upstream.body[1].members

IsStr(j) == j.t = "str"
IsStrList(j) == j.t = "list" /\ \A i \in 1..Len(j.items) : j.items[i].t = "str"

\* the IntrospectionResult shape of the data model: {active: bool, sub: string,
\* email: string, roles: sequence of string (under realm_access), scope: string}
ExpectedShape(d) ==
    /\ "active" \in DOMAIN d /\ d["active"].t = "bool"
    /\ "sub" \in DOMAIN d => IsStr(d["sub"])
    /\ "email" \in DOMAIN d => IsStr(d["email"])
    /\ "scope" \in DOMAIN d => IsStr(d["scope"])
    /\ "realm_access" \in DOMAIN d =>
          /\ d["realm_access"].t = "obj"
          /\ "roles" \in DOMAIN d["realm_access"].members =>
                IsStrList(d["realm_access"].members["roles"])

\* the introspection call failed: connection error, timeout, non-2xx status, or
\* a payload that does not parse into the expected shape
IntrospectionFailure ==
    /\ Called
    /\ \/ Upstream.transport # TransportOk
       \/ ~(200 <= Upstream.status /\ Upstream.status <= 299)
       \/ ~ObjectReturned
       \/ ~ExpectedShape(Claims)

\* C1: fail-closed: whenever the introspection call of a /verify request fails
\* (connection error, timeout, non-2xx status, payload not of the expected
\* shape), the request is answered 401, never 200.
C1_FailClosed ==
    IntrospectionFailure => verify_response[1].status_code = 401

\* C2: a token the authority reports with active false, or without the active
\* flag, is answered 401; and no 401 response of /verify, whatever its reason,
\* carries X-User-Sub, X-User-Email, X-User-Roles or X-User-Scopes.
C2_InactiveRejectedNoIdentity ==
    /\ (/\ ObjectReturned
        /\ \/ "active" \notin DOMAIN Claims
           \/ Claims["active"] = JBool(FALSE))
          => verify_response[1].status_code = 401
    /\ (VerifyServed /\ verify_response[1].status_code = 401)
          => DOMAIN verify_response[1].headers \cap IdentityHeaders = {}

\* the authority said active false, and, in another request, the try block had
\* already set identity headers when it failed (a role that is no string)
C2_Witness ==
    /\ ObjectReturned
    /\ Upstream.status = 200
    /\ "active" \in DOMAIN Claims /\ Claims["active"] = JBool(FALSE)
    /\ "sub" \in DOMAIN Claims
    /\ verify_response[1].status_code = 401

ClaimOr(d, key, default) == IF key \in DOMAIN d THEN d[key].str ELSE default

RECURSIVE CommaJoin(_)
CommaJoin(items) ==
    IF items = <<>> THEN <<>>
    ELSE IF Len(items) = 1 THEN items[1].str
    ELSE items[1].str \o <<",">> \o CommaJoin(Tail(items))

RolesOf(d) ==
    IF "realm_access" \in DOMAIN d /\ "roles" \in DOMAIN d["realm_access"].members
    THEN d["realm_access"].members["roles"].items
    ELSE <<>>

\* C3: when introspection returns a result with active true, /verify answers
\* 200 with X-User-Sub the sub claim, X-User-Email the email claim,
\* X-User-Scopes the scope claim verbatim and X-User-Roles the nested roles
\* joined by commas in their order (a claim that is missing gives "").
C3_ActiveAuthorized ==
    (/\ ObjectReturned
     /\ 200 <= Upstream.status /\ Upstream.status <= 299
     /\ ExpectedShape(Claims)
     /\ Claims["active"] = JBool(TRUE))
    => /\ verify_response[1].status_code = 200
       /\ DOMAIN verify_response[1].headers = IdentityHeaders
       /\ verify_response[1].headers["X-User-Sub"] = ClaimOr(Claims, "sub", <<>>)
       /\ verify_response[1].headers["X-User-Email"] = ClaimOr(Claims, "email", <<>>)
       /\ verify_response[1].headers["X-User-Scopes"] = ClaimOr(Claims, "scope", <<>>)
       /\ verify_response[1].headers["X-User-Roles"] = CommaJoin(RolesOf(Claims))

C3_Witness ==
    /\ ObjectReturned
    /\ Upstream.status = 200
    /\ ExpectedShape(Claims)
    /\ Claims["active"] = JBool(TRUE)
    /\ RolesOf(Claims) = <<JStr(Str("user")), JStr(Str("admin"))>>
    /\ "scope" \in DOMAIN Claims /\ Claims["scope"].str = <<"openid", " ", "calculator:read">>
    /\ verify_response[1].status_code = 200
    /\ verify_response[1].headers["X-User-Roles"] = <<"user", ",", "admin">>

\* the Authorization value is "Bearer " followed by something (possibly nothing)
CarriesBearer(h) ==
    \E n \in 0..Len(h) : h = <<"B", "e", "a", "r", "e", "r", " ">> \o SubSeq(h, Len(h) - n + 1, Len(h))

\* C4: a /verify request whose Authorization header is absent or does not
\* start with "Bearer " is answered 401 with a WWW-Authenticate challenge
\* whose error is invalid_token and a JSON body whose error is unauthorized.
C4_MissingBearerChallenge ==
    (/\ VerifyServed
     /\ \/ "Authorization" \notin DOMAIN verify_request[1].headers
        \/ ~CarriesBearer(verify_request[1].headers["Authorization"]))
    => /\ verify_response[1].status_code = 401
       /\ "WWW-Authenticate" \in DOMAIN verify_response[1].headers
       /\ verify_response[1].headers["WWW-Authenticate"].error = Str("invalid_token")
       /\ verify_response[1].json.error = Str("unauthorized")

C4_Witness ==
    /\ VerifyServed
    /\ "Authorization" \in DOMAIN verify_request[1].headers
    /\ verify_request[1].headers["Authorization"] = <<"B", "e", "a", "r", "e", "r", "t", "1">>
    /\ verify_response[1].status_code = 401
    /\ verify_response[1].headers["WWW-Authenticate"].error = Str("invalid_token")

---------------------------------------------------------------------------
(* Properties of the resource servers (checked under SpecMcp) *)

McpServed == mcp_request # None /\ mcp_response # None
McpServer == mcp_request[1].server
McpBody == mcp_request[1].body
McpHeaders == mcp_request[1].headers
McpResponse == mcp_response[1]
HasEnvelope == McpResponse.content # None
Envelope == McpResponse.content[1]
StagesRun == {McpResponse.ran[i] : i \in DOMAIN McpResponse.ran}

\* the payload is a JSON object with the members the RPC request shape needs:
\* an integer or string id, a string method, and, where given, a string
\* jsonrpc and an object params
FitsRpcRequest ==
    /\ McpBody # None
    /\ McpBody[1].t = "obj"
    /\ LET d == McpBody[1].members IN
       /\ {"id", "method"} \subseteq DOMAIN d
       /\ d["id"].t \in {"num", "str"}
       /\ d["method"].t = "str"
       /\ "jsonrpc" \in DOMAIN d => d["jsonrpc"].t = "str"
       /\ "params" \in DOMAIN d => d["params"].t = "obj"

RequestId == McpBody[1].members["id"]
RequestMethod == McpBody[1].members["method"].str
RequestParams ==
    IF "params" \in DOMAIN McpBody[1].members
    THEN McpBody[1].members["params"].members
    ELSE EmptyDict

IsToolsCall == FitsRpcRequest /\ RequestMethod = Str("tools/call")

\* the space-free stretches of s that a space or an end of s bounds on each side
TokensOf(s) ==
    {SubSeq(s, p[1], p[2]) :
        p \in {q \in (1..Len(s)) \X (1..Len(s)) :
                 /\ q[1] <= q[2]
                 /\ \A k \in q[1]..q[2] : s[k] # " "
                 /\ q[1] = 1 \/ s[q[1] - 1] = " "
                 /\ q[2] = Len(s) \/ s[q[2] + 1] = " "}}

\* the scopes in effect for the request: the tokens of X-User-Scopes, or the
\* server's default scope when the header brings none
EffectiveScopes ==
    IF "X-User-Scopes" \in DOMAIN McpHeaders /\ McpHeaders["X-User-Scopes"] # <<>>
    THEN TokensOf(McpHeaders["X-User-Scopes"])
    ELSE IF McpServer = "calculator" THEN {Str("calculator:read")}
    ELSE {Str("weather:read")}

AcceptedScopes ==
    IF McpServer = "calculator"
    THEN {Str("calculator:read"), Str("calculator-scope"), Str("openid")}
    ELSE {Str("weather:read"), Str("weather-scope")}

ScopeSatisfied == EffectiveScopes \cap AcceptedScopes # {}

IsErrorEnvelope(code) ==
    /\ HasEnvelope
    /\ "error" \in DOMAIN Envelope
    /\ "result" \notin DOMAIN Envelope
    /\ Envelope["error"].code = code

\* Order of the scope check, with the scopes as get_user_scopes yields them
\* (the default standing in for an empty value): a tools/call they do not
\* satisfy is answered -32600 whether params.name is a registered tool, an
\* unknown one or missing; no tool is resolved, no handler runs.
C5_ScopeCheckedBeforeTool ==
    (McpServed /\ IsToolsCall /\ ~ScopeSatisfied) =>
        /\ McpResponse.status_code = 200
        /\ IsErrorEnvelope(-32600)
        /\ Envelope["error"].message = Str("Insufficient permissions")
        /\ Envelope["id"] = RequestId
        /\ StCheckScope \in StagesRun
        /\ StagesRun \cap {StResolve, StCoerce, StHandler} = {}

\* an unknown tool, asked for without the required scope, is refused for the
\* scope and not for the name
C5_Witness ==
    /\ McpServed /\ IsToolsCall /\ ~ScopeSatisfied
    /\ McpServer = "calculator"
    /\ RequestParams = ("name" :> JStr(Str("no_such_tool")))
    /\ "X-User-Scopes" \in DOMAIN McpHeaders
    /\ McpHeaders["X-User-Scopes"] = <<"calculator:read", "x">>
    /\ IsErrorEnvelope(-32600)

\* C6: every JSON-RPC envelope a server sends has exactly one of result and
\* error, and its id is the id of the request, or null when the request could
\* not be parsed.
C6_EnvelopeShape ==
    (McpServed /\ HasEnvelope) =>
        /\ ("result" \in DOMAIN Envelope) # ("error" \in DOMAIN Envelope)
        /\ "id" \in DOMAIN Envelope
        /\ Envelope["id"] = (IF FitsRpcRequest THEN RequestId ELSE JNull)
        /\ Envelope["jsonrpc"] = Str("2.0")

\* an error envelope for a request with a string id
C6_Witness ==
    /\ McpServed /\ HasEnvelope /\ FitsRpcRequest
    /\ RequestId = JStr(Str("req-a"))
    /\ "error" \in DOMAIN Envelope
    /\ Envelope["id"] = JStr(Str("req-a"))

\* C7: only a parse failure gives a non-200 HTTP status; every request that
\* parses is answered with status 200 and a JSON-RPC envelope, whatever goes
\* wrong in scope, method, tool or handler.
C7_OnlyParseFailureIsHttpError ==
    (McpServed /\ FitsRpcRequest) =>
        /\ McpResponse.status_code = 200
        /\ HasEnvelope

\* C8: a body that is not JSON, or does not fit the RPC request shape, is
\* answered with HTTP 400 and the error -32700 "Parse error" with id null,
\* and nothing but the parse stage runs.
C8_ParseFailure ==
    (McpServed /\ ~FitsRpcRequest) =>
        /\ McpResponse.status_code = 400
        /\ IsErrorEnvelope(-32700)
        /\ Envelope["error"].message = Str("Parse error")
        /\ Envelope["id"] = JNull
        /\ McpResponse.ran = <<StParse>>

\* a tools/call that lacks its id never reaches the tool
C8_Witness ==
    /\ McpServed
    /\ McpBody = Some(JObj(("jsonrpc" :> JStr(Str("2.0")))
                             @@ ("method" :> JStr(Str("tools/call")))
                             @@ ("params" :> CallAdd)))
    /\ McpResponse.status_code = 400
    /\ McpResponse.ran = <<StParse>>

\* C9: a request that parses and whose method is none of initialize,
\* tools/list and tools/call is answered with the error -32601, data
\* "Unknown method: <method>" and the request's id, whatever the scopes.
C9_UnknownMethod ==
    (/\ McpServed /\ FitsRpcRequest
     /\ RequestMethod \notin {Str("initialize"), Str("tools/list"), Str("tools/call")}) =>
        /\ McpResponse.status_code = 200
        /\ IsErrorEnvelope(-32601)
        /\ Envelope["error"].data = Str("Unknown method: ") \o RequestMethod
        /\ Envelope["id"] = RequestId

\* an unknown method from a caller whose scopes satisfy nothing
C9_Witness ==
    /\ McpServed /\ FitsRpcRequest
    /\ RequestMethod = Str("ping")
    /\ ~ScopeSatisfied
    /\ IsErrorEnvelope(-32601)

\* the arguments of the call are a mapping whose member key, where present, is
\* a JSON number
NumberOrAbsent(key) ==
    LET a == RequestParams["arguments"].members IN
    key \in DOMAIN a => a[key].t = "num"

\* the number the call gives for key: 0 stands for an absent member
NumberGiven(key) ==
    LET a == RequestParams["arguments"].members IN
    IF key \in DOMAIN a THEN a[key].num ELSE 0

CalculatorCallOf(name) ==
    /\ McpServed /\ McpServer = "calculator"
    /\ IsToolsCall /\ ScopeSatisfied
    /\ "name" \in DOMAIN RequestParams
    /\ RequestParams["name"] = JStr(Str(name))
    /\ "arguments" \in DOMAIN RequestParams
    /\ RequestParams["arguments"].t = "obj"

DivideByZero ==
    /\ CalculatorCallOf("divide")
    /\ NumberOrAbsent("a") /\ NumberOrAbsent("b")
    /\ NumberGiven("b") = 0

SqrtOfNegative ==
    /\ CalculatorCallOf("sqrt")
    /\ NumberOrAbsent("number")
    /\ NumberGiven("number") < 0

ToolText == Envelope["result"].content[1].text

\* C10: with a sufficient scope, divide with divisor 0 and sqrt of a negative
\* number are answered with a result and no error; the result's text reports
\* the domain failure and carries no value.
C10_DomainFailureIsResult ==
    (DivideByZero \/ SqrtOfNegative) =>
        /\ McpResponse.status_code = 200
        /\ HasEnvelope
        /\ "result" \in DOMAIN Envelope
        /\ "error" \notin DOMAIN Envelope
        /\ ToolText.result = None
        /\ ToolText.outcome = (IF DivideByZero THEN DivisionParZero ELSE RacineNegative)

\* divide 2 by 0
C10_Witness ==
    /\ DivideByZero
    /\ RequestParams["arguments"] = JObj(("a" :> JNum(2)) @@ ("b" :> JNum(0)))
    /\ StHandler \in StagesRun
    /\ ToolText.outcome = DivisionParZero

\* the X-User-Scopes value the endpoint receives: the header's value, or the
\* declared default of the parameter when the request has no such header
ScopesValue ==
    IF "X-User-Scopes" \in DOMAIN McpHeaders THEN McpHeaders["X-User-Scopes"]
    ELSE IF McpServer = "calculator" THEN Str("calculator:read")
    ELSE Str("weather:read")

\* the scope check of a tools/call let the request through to tool resolution
ScopeCheckPassed == StResolve \in StagesRun

\* the X-User-Scopes value, split on single spaces, holds an accepted token
ValueScopeSatisfied == TokensOf(ScopesValue) \cap AcceptedScopes # {}

\* C5: a tools/call whose effective scope set (the X-User-Scopes value split
\* on single spaces, the default standing in for an absent header) does not
\* satisfy the server's required scope is answered with the JSON-RPC error
\* -32600, whether params.name is registered, unknown or missing; the scope
\* check is decided before tool resolution and no handler runs.
C5_InsufficientScopeRefused ==
    (McpServed /\ IsToolsCall /\ ~ValueScopeSatisfied) =>
        /\ McpResponse.status_code = 200
        /\ IsErrorEnvelope(-32600)
        /\ Envelope["id"] = RequestId
        /\ StagesRun \cap {StResolve, StCoerce, StHandler} = {}

\* C11: the scope check of a tools/call is satisfied if and only if the
\* X-User-Scopes value, split on single spaces, has the required scope or one of
\* the server's alias tokens as a whole token.
C11_WholeTokenMatch ==
    (McpServed /\ IsToolsCall) =>
        /\ StCheckScope \in StagesRun
        /\ ScopeCheckPassed <=> ValueScopeSatisfied

\* C12: initialize and tools/list are answered with a success envelope for
\* every value of X-User-Scopes, without a scope check: initialize with the
\* static capabilities and serverInfo, tools/list with the whole registry.
C12_ListAndInitializeUngated ==
    (/\ McpServed /\ FitsRpcRequest
     /\ RequestMethod \in {Str("initialize"), Str("tools/list")}) =>
        /\ McpResponse.status_code = 200
        /\ HasEnvelope
        /\ "result" \in DOMAIN Envelope
        /\ "error" \notin DOMAIN Envelope
        /\ StCheckScope \notin StagesRun
        /\ IF RequestMethod = Str("tools/list")
           THEN Envelope["result"] =
                    [tools |-> IF McpServer = "calculator" THEN calc_MCP_TOOLS
                               ELSE weather_MCP_TOOLS]
           ELSE /\ Envelope["result"].protocolVersion = Str("2024-11-05")
                /\ Envelope["result"].capabilities = [tools |-> EmptyDict]
                /\ Envelope["result"].serverInfo.name =
                      (IF McpServer = "calculator" THEN Str("mcp-calculator-server")
                       ELSE Str("mcp-weather-server"))

\* the calculator lists its tools for a caller whose scopes would fail a
\* tools/call
C12_Witness ==
    /\ McpServed /\ FitsRpcRequest
    /\ McpServer = "calculator"
    /\ RequestMethod = Str("tools/list")
    /\ "X-User-Scopes" \in DOMAIN McpHeaders
    /\ McpHeaders["X-User-Scopes"] = <<"x", " ", "weather:read">>
    /\ ~ScopeSatisfied
    /\ "result" \in DOMAIN Envelope

---------------------------------------------------------------------------
(* Properties of concurrent /verify requests (checked under SpecSessions) *)

\* thread t has built the response of its request
Answered(t) == worker[t].pc = "respond"

\* the Authorization header of t's request is "Bearer " followed by token
Presents(t, token) ==
    /\ "Authorization" \in DOMAIN worker[t].request.headers
    /\ worker[t].request.headers["Authorization"] = BearerPrefix \o token

\* C13: introspection results are not cached: a /verify request that starts
\* after the authority began to report its token inactive is answered 401
\* without identity headers, however many earlier requests with that token
\* were answered 200.
C13_RevocationTakesEffect ==
    \A t \in Threads, token \in Tokens :
        (Answered(t) /\ Presents(t, token) /\ token \in worker[t].revoked_at_start) =>
            /\ worker[t].response.status_code = 401
            /\ DOMAIN worker[t].response.headers \cap IdentityHeaders = {}

\* a token that was authorized before is refused once revoked, after the
\* authority answered the call
C13_Witness ==
    \E t \in Threads :
        /\ Answered(t) /\ Presents(t, Token1)
        /\ Token1 \in authorized
        /\ Token1 \in worker[t].revoked_at_start
        /\ worker[t].upstream # None
        /\ worker[t].upstream[1].status = 200
        /\ worker[t].response.status_code = 401

---------------------------------------------------------------------------
(* Further properties of /verify (checked under Spec) *)

Rejected == VerifyServed /\ verify_response[1].status_code = 401
Challenge == verify_response[1].headers["WWW-Authenticate"]

\* the authority answered with an object whose active flag is false or missing
ReportedInactive ==
    /\ ObjectReturned
    /\ 200 <= Upstream.status /\ Upstream.status <= 299
    /\ \/ "active" \notin DOMAIN Claims
       \/ Claims["active"] = JBool(FALSE)

\* C15 as stated: on every rejection the error_description of the
\* WWW-Authenticate header is the error_description of the JSON body, for a
\* missing bearer token, a failed introspection and an inactive token alike.
C15_HeaderCarriesReason ==
    Rejected => Challenge.error_description = verify_response[1].json.error_description

\* C15, amended: the two descriptions agree only for a missing bearer token
\* ("Bearer token required").  When introspection was called, the header says
\* "Token validation failed" whatever the reason, and only the body carries
\* it ("Token is not active" for an inactive token).
C15_HeaderDescriptionFixed ==
    Rejected =>
        /\ ~Called =>
              /\ Challenge.error_description = Str("Bearer token required")
              /\ verify_response[1].json.error_description = Str("Bearer token required")
        /\ Called =>
              /\ Challenge.error_description = Str("Token validation failed")
              /\ verify_response[1].json.error_description # Challenge.error_description
        /\ ReportedInactive =>
              verify_response[1].json.error_description = Str("Token is not active")

\* an inactive token: the body gives the reason, the header does not
C15_Witness ==
    /\ Rejected /\ ReportedInactive
    /\ "active" \in DOMAIN Claims
    /\ Challenge.error_description = Str("Token validation failed")
    /\ verify_response[1].json.error_description = Str("Token is not active")

---------------------------------------------------------------------------
(* The tool registry (checked under SpecMcp) *)

\* the tools in the order the two modules register them
CalculatorRegistration ==
    <<Str("add"), Str("subtract"), Str("multiply"), Str("divide"), Str("power"), Str("sqrt")>>
WeatherRegistration ==
    <<Str("get_weather_forecast"), Str("get_weather_alerts"), Str("get_uv_index")>>

\* C16: tools/list returns the registered tools in registration order, and no
\* sequence of initialize, tools/list and tools/call requests, successful or
\* failing, changes the content or the order of the registry.
C16_RegistryStable ==
    /\ MCP_TOOLS = [calculator |-> CalculatorRegistration, weather |-> WeatherRegistration]
    /\ (McpServed /\ FitsRpcRequest /\ RequestMethod = Str("tools/list")) =>
          /\ HasEnvelope
          /\ "result" \in DOMAIN Envelope
          /\ Envelope["result"].tools =
                (IF McpServer = "calculator" THEN CalculatorRegistration
                 ELSE WeatherRegistration)

\* the weather server lists its three tools in order
C16_Witness ==
    /\ McpServed /\ FitsRpcRequest
    /\ McpServer = "weather"
    /\ RequestMethod = Str("tools/list")
    /\ Len(Envelope["result"].tools) = 3
    /\ Envelope["result"].tools[1] = Str("get_weather_forecast")
    /\ Envelope["result"].tools[3] = Str("get_uv_index")

---------------------------------------------------------------------------
(* Properties of the key material cache (checked under SpecKeys) *)

\* thread t is back from get_keycloak_jwks with a value or an exception
Returned(t) == getkeys[t].pc = "done"

\* the call of thread t began when the cache was already populated
CalledLater(t) == Returned(t) /\ getkeys[t].found # None

Written == {cache_writes[i] : i \in DOMAIN cache_writes}

\* C17 as stated: once a call has populated the cache, every later call returns
\* that cached value without contacting the authorization server, and the
\* cached value is never invalidated or replaced; a call whose fetch fails
\* raises and leaves the cache unpopulated.
C17_CacheNeverReplaced ==
    /\ _jwks_cache # None => _jwks_cache = Some(cache_writes[1])
    /\ \A t \in Threads :
          CalledLater(t) =>
              /\ getkeys[t].contacted = 0
              /\ getkeys[t].result = Return(getkeys[t].found)
    /\ \A t \in Threads :
          (Returned(t) /\ getkeys[t].result.raised) => ~getkeys[t].wrote

\* C17, amended: once populated the cache is never emptied, and a call that
\* begins afterwards contacts nobody and returns a cached value; but a caller
\* that had found the cache empty before it was populated still assigns what
\* it fetched, so the cached value can be replaced (last write wins) and a
\* later call can return the replacing value.  A call whose fetch fails raises
\* and assigns nothing.
C17_CacheLastWriteWins ==
    /\ (_jwks_cache = None) <=> (cache_writes = <<>>)
    /\ cache_writes # <<>> => _jwks_cache = Some(cache_writes[Len(cache_writes)])
    /\ Written \subseteq {KeySet1, KeySet2}
    /\ \A t \in Threads :
          CalledLater(t) =>
              /\ getkeys[t].contacted = 0
              /\ ~getkeys[t].result.raised
              /\ getkeys[t].result.value # None
              /\ getkeys[t].result.value[1] \in Written
    /\ \A t \in Threads :
          (Returned(t) /\ getkeys[t].result.raised) =>
              /\ getkeys[t].contacted = 1
              /\ ~getkeys[t].wrote
    /\ \A t \in Threads :
          (Returned(t) /\ getkeys[t].found = None /\ ~getkeys[t].result.raised) =>
              getkeys[t].wrote

\* a call that found the cache populated returns another value than it found:
\* a first caller's assignment came in between
C17_Witness ==
    \E t \in Threads :
        /\ CalledLater(t)
        /\ getkeys[t].contacted = 0
        /\ ~getkeys[t].result.raised
        /\ getkeys[t].result.value # getkeys[t].found

\* C19 as stated: under any interleaving of concurrent callers the cache is
\* written at most once in the process lifetime.
C19_WrittenAtMostOnce == Len(cache_writes) <= 1

\* C19, amended: the cache is written only by callers that found it empty at
\* line 28, once each; callers that test it concurrently before the first
\* assignment each assign what they fetched, so the number of writes is at
\* most the number of request threads, and no call that begins after the
\* cache is populated writes it.
C19_WrittenByFirstCallersOnly ==
    /\ Len(cache_writes) <= Cardinality(Threads)
    /\ \A t \in Threads :
          (getkeys[t].pc \in {"fetch", "store"}) => getkeys[t].found = None
    /\ \A t \in Threads :
          (getkeys[t].pc \in {"return", "done"} /\ getkeys[t].wrote) =>
              getkeys[t].found = None
    /\ Len(cache_writes)
          + Cardinality({t \in Threads : getkeys[t].pc \in {"fetch", "store"}})
          <= Cardinality(Threads)

\* two first callers have both written, the second the older key set
C19_Witness ==
    /\ cache_writes = <<KeySet2, KeySet1>>
    /\ _jwks_cache = Some(KeySet1)
    /\ published = KeySet2

---------------------------------------------------------------------------
(* Upstream calls per /verify request (checked under SpecSessions) *)

\* the request of thread t has an Authorization header of the form
\* Bearer <token> with a token that is not empty
BearerWithToken(t) ==
    /\ "Authorization" \in DOMAIN worker[t].request.headers
    /\ CarriesBearer(worker[t].request.headers["Authorization"])
    /\ Len(worker[t].request.headers["Authorization"]) > Len(BearerPrefix)

\* C18: a /verify request whose Authorization header is absent or not of the
\* form Bearer <token> with a non-empty token is rejected as missing the
\* bearer token with no introspection call; every other request makes exactly
\* one introspection call, failed or not.
C18_CallsPerRequest ==
    \A t \in Threads :
        Answered(t) =>
            IF BearerWithToken(t)
            THEN /\ worker[t].calls = 1
                 /\ worker[t].upstream # None
            ELSE /\ worker[t].calls = 0
                 /\ worker[t].upstream = None
                 /\ worker[t].response.status_code = 401
                 /\ worker[t].response.json.error_description = Str("Bearer token required")

---------------------------------------------------------------------------
(* Identity metadata and the dispatcher (checked under SpecMcp) *)

\* the request served once more with other headers, at time now
ServedWith(headers, now) ==
    IF McpServer = "calculator"
    THEN calc_mcp_endpoint(McpBody, headers, now)
    ELSE weather_mcp_endpoint(McpBody, headers, now)

\* the headers of the request with X-User-Sub, X-User-Email and X-User-Roles
\* replaced by those of identity
WithIdentity(identity) ==
    identity @@ [k \in DOMAIN McpHeaders \cap {"X-User-Scopes"} |-> McpHeaders[k]]

\* a response without the user field of a tools/call result
WithoutUser(response) ==
    IF response.content # None
       /\ "result" \in DOMAIN response.content[1]
       /\ "user" \in DOMAIN response.content[1]["result"]
    THEN [response EXCEPT !.content =
            Some([response.content[1] EXCEPT !["result"] = [content |-> @.content]])]
    ELSE response

\* C20: two requests that differ only in X-User-Sub, X-User-Email and
\* X-User-Roles reach the same outcome: same HTTP status, same stages run,
\* same result or error with the same code, same tool text; the headers show
\* only in the user field of a successful tools/call result.
C20_IdentityNoninterference ==
    McpServed =>
        \A identity \in IdentityHeaderDicts :
            \E now \in Timestamps :
                WithoutUser(ServedWith(WithIdentity(identity), now)) = WithoutUser(McpResponse)

\* alice's divide is answered with her name in the user field only
C20_Witness ==
    /\ McpServed /\ IsToolsCall
    /\ "X-User-Sub" \in DOMAIN McpHeaders
    /\ McpHeaders["X-User-Sub"] = Str("alice")
    /\ HasEnvelope
    /\ "result" \in DOMAIN Envelope
    /\ Envelope["result"].user.sub = Str("alice")
    /\ \E now \in Timestamps :
          /\ ServedWith(WithIdentity("X-User-Sub" :> Str("bob")), now) # McpResponse
          /\ WithoutUser(ServedWith(WithIdentity("X-User-Sub" :> Str("bob")), now))
                = WithoutUser(McpResponse)

---------------------------------------------------------------------------
(* Tool resolution (SpecMcp) *)

\* params["name"] as tools/call reads it: null when the member is missing
ToolName == IF "name" \in DOMAIN RequestParams THEN RequestParams["name"] ELSE JNull

\* the names the server's tool list registers
RegisteredNames == {JStr(MCP_TOOLS[McpServer][i]) : i \in DOMAIN MCP_TOOLS[McpServer]}

\* the name as the error data spells it: the text of a string, None for none
ToolNameText == IF ToolName.t = "str" THEN ToolName.str ELSE Str("None")

\* C22: a tools/call with a satisfied scope whose params.name is not a
\* registered tool of the server (a missing name included) is answered with
\* the error envelope: code -32601, message "Method not found", data
\* "Unknown tool: <name>", the id echoed, and no handler is invoked.
C22_UnknownTool ==
    (McpServed /\ IsToolsCall /\ ValueScopeSatisfied /\ ToolName \notin RegisteredNames) =>
        /\ McpResponse.status_code = 200
        /\ McpResponse.content =
              Some(("jsonrpc" :> Str("2.0")) @@ ("id" :> RequestId)
                   @@ ("error" :> [code |-> -32601,
                                   message |-> Str("Method not found"),
                                   data |-> Str("Unknown tool: ") \o ToolNameText]))
        /\ StHandler \notin StagesRun
        /\ StCoerce \notin StagesRun

\* a tools/call without params.name, with arguments that a handler could not
\* take, is refused as an unknown tool named None
C22_Witness ==
    /\ McpServed /\ IsToolsCall /\ ValueScopeSatisfied
    /\ "name" \notin DOMAIN RequestParams
    /\ "arguments" \in DOMAIN RequestParams
    /\ RequestParams["arguments"] = JNull
    /\ "X-User-Scopes" \in DOMAIN McpHeaders
    /\ IsErrorEnvelope(-32601)
    /\ Envelope["error"].data = <<"Unknown tool: ", "None">>

---------------------------------------------------------------------------
(* The realm of the challenge (Spec) *)

\* the realm segment of a URL of the form <base>/realms/<realm><rest>
RealmOf(url) == <<url[3]>>

\* C23: for every configured realm name, the realm parameter of the
\* WWW-Authenticate header of a rejection is the configured realm: the realm
\* of the header's authorization_uri and discovery_uri and of the issuer of
\* the discovery document.
C23_ChallengeRealmIsConfigured ==
    Rejected =>
        /\ Challenge.realm = KEYCLOAK_REALM
        /\ Challenge.realm = RealmOf(Challenge.authorization_uri)
        /\ Challenge.realm = RealmOf(Challenge.discovery_uri)
        /\ Challenge.realm = RealmOf(get_discovery_metadata.issuer)

\* The URIs of the challenge and the issuer do follow the configuration, in
\* every realm; with the default realm the realm parameter agrees with them.
C23_UrisFollowConfiguration ==
    Rejected =>
        /\ RealmOf(Challenge.authorization_uri) = KEYCLOAK_REALM
        /\ RealmOf(Challenge.discovery_uri) = KEYCLOAK_REALM
        /\ RealmOf(get_discovery_metadata.issuer) = KEYCLOAK_REALM
        /\ KEYCLOAK_REALM = Str("mcp-gateway") => Challenge.realm = KEYCLOAK_REALM

---------------------------------------------------------------------------
(* The registry and the tool chain (SpecMcp) *)

ToolsListBody ==
    Some(JObj(("jsonrpc" :> JStr(Str("2.0"))) @@ ("id" :> JNum(1))
                @@ ("method" :> JStr(Str("tools/list")))))

\* the names a tools/list sent to the same server with the same headers returns
ListedNames ==
    LET now == CHOOSE t \in Timestamps : TRUE
        listing == IF McpServer = "calculator"
                   THEN calc_mcp_endpoint(ToolsListBody, McpHeaders, now)
                   ELSE weather_mcp_endpoint(ToolsListBody, McpHeaders, now)
        tools == listing.content[1]["result"].tools
    IN {JStr(tools[i]) : i \in DOMAIN tools}

\* the tool chain found a branch for the name: it went on to read arguments
ResolvedToHandler == StCoerce \in StagesRun

\* the arguments are a mapping (or left out) whose values the handlers take:
\* numbers for the calculator, numbers or text for the weather server
ArgumentsWellFormed ==
    \/ "arguments" \notin DOMAIN RequestParams
    \/ /\ RequestParams["arguments"].t = "obj"
       /\ \A k \in DOMAIN RequestParams["arguments"].members :
             \/ RequestParams["arguments"].members[k].t = "num"
             \/ /\ McpServer = "weather"
                /\ RequestParams["arguments"].members[k].t = "str"

\* C25: in each resource server the names that tools/call resolves to a
\* handler are the names that tools/list returns: with a sufficient scope a
\* listed name is resolved, and its handler is invoked when its arguments
\* are well formed, and a name that is not listed is answered "Unknown tool"
\* and reaches no handler.
C25_ListedIffResolved ==
    (McpServed /\ IsToolsCall /\ ValueScopeSatisfied) =>
        /\ ToolName \in ListedNames <=> ResolvedToHandler
        /\ ToolName \notin ListedNames <=> IsErrorEnvelope(-32601)
        /\ (ToolName \in ListedNames /\ ArgumentsWellFormed) => StHandler \in StagesRun
        /\ ToolName \notin ListedNames => StHandler \notin StagesRun

\* the last tool the weather server lists is called and answers with a result
C25_Witness ==
    /\ McpServed /\ IsToolsCall /\ ValueScopeSatisfied
    /\ McpServer = "weather"
    /\ ToolName = JStr(Str("get_uv_index"))
    /\ ToolName \in ListedNames
    /\ Cardinality(ListedNames) = 3
    /\ "X-User-Scopes" \in DOMAIN McpHeaders
    /\ StHandler \in StagesRun
    /\ HasEnvelope
    /\ "result" \in DOMAIN Envelope

---------------------------------------------------------------------------
(* The gateway and a resource server, end to end *)

\* The proxy asks /verify about each request; on a 200 it copies the identity
\* headers of the answer onto the request and passes it to the resource
\* server, on anything else it returns the answer to the client.

\* every method, and tools/call of a tool of each server and of add(2, 0)
EndToEndBodies ==
    IdentityBodies
        \cup {Some(JObj(("jsonrpc" :> JStr(Str("2.0"))) @@ ("id" :> JNum(1))
                 @@ ("method" :> JStr(Str("tools/call"))) @@ ("params" :> CallAdd)))}

\* the identity headers of the /verify answer, as they stand
forwarded_headers ==
    [k \in DOMAIN verify_response[1].headers \cap IdentityHeaders |->
        verify_response[1].headers[k]]

ForwardCalculator ==
    /\ VerifyServed
    /\ verify_response[1].status_code = 200
    /\ mcp_request = None
    /\ \E now \in Timestamps, body \in EndToEndBodies :
          /\ mcp_request' = Some([server |-> "calculator", body |-> body,
                                  headers |-> forwarded_headers])
          /\ mcp_response' = Some(calc_mcp_endpoint(body, forwarded_headers, now))
    /\ UNCHANGED <<KEYCLOAK_REALM, verify_request, verify_response, session_vars, MCP_TOOLS, rpc_vars, keys_vars>>

ForwardWeather ==
    /\ VerifyServed
    /\ verify_response[1].status_code = 200
    /\ mcp_request = None
    /\ \E now \in Timestamps, body \in EndToEndBodies :
          /\ mcp_request' = Some([server |-> "weather", body |-> body,
                                  headers |-> forwarded_headers])
          /\ mcp_response' = Some(weather_mcp_endpoint(body, forwarded_headers, now))
    /\ UNCHANGED <<KEYCLOAK_REALM, verify_request, verify_response, session_vars, MCP_TOOLS, rpc_vars, keys_vars>>

\* the client has its answer, from the gateway or from the resource server
EndToEndDone ==
    /\ verify_request # None
    /\ verify_request' = None
    /\ verify_response' = None
    /\ mcp_request' = None
    /\ mcp_response' = None
    /\ UNCHANGED <<KEYCLOAK_REALM, session_vars, MCP_TOOLS, rpc_vars, keys_vars>>

NextEndToEnd == Verify \/ ForwardCalculator \/ ForwardWeather \/ EndToEndDone

SpecEndToEnd == InitMcp /\ [][NextEndToEnd]_vars

\* the authority reported the token active, with a boolean true
TokenActive ==
    /\ ObjectReturned
    /\ "active" \in DOMAIN Claims
    /\ Claims["active"] = JBool(TRUE)

\* the scope claim of the introspection result; nothing when it is missing
ScopeClaim == IF "scope" \in DOMAIN Claims THEN Claims["scope"].str ELSE <<>>

\* the resource server answered the tools/call with a result
ToolsCallSucceeded ==
    /\ McpServed /\ IsToolsCall
    /\ HasEnvelope
    /\ "result" \in DOMAIN Envelope

\* C24: end to end, with the identity headers of the gateway forwarded
\* unmodified, for every active token (one whose scope claim is empty or
\* missing included) a tools/call succeeds only if the introspected scope
\* claim contains the server's required scope or one of its aliases; the
\* default scope of the server is applied only when X-User-Scopes is absent,
\* which the gateway's answer never leaves it.
C24_ScopeComesFromToken ==
    (VerifyServed /\ McpServed /\ TokenActive) =>
        /\ "X-User-Scopes" \in DOMAIN McpHeaders
        /\ McpHeaders["X-User-Scopes"] = ScopeClaim
        /\ ToolsCallSucceeded => TokensOf(ScopeClaim) \cap AcceptedScopes # {}

\* What holds end to end: a tools/call succeeds only if the scope claim,
\* or the server's default when the claim is empty or missing, contains an
\* accepted scope.
C24_ScopeOrDefault ==
    (VerifyServed /\ McpServed /\ TokenActive) =>
        /\ "X-User-Scopes" \in DOMAIN McpHeaders
        /\ McpHeaders["X-User-Scopes"] = ScopeClaim
        /\ ToolsCallSucceeded => ScopeSatisfied
        /\ (IsToolsCall /\ ScopeClaim # <<>> /\ TokensOf(ScopeClaim) \cap AcceptedScopes = {})
              => IsErrorEnvelope(-32600)

\* a token with the weather scope alone is refused by the calculator
C24_RefusedWitness ==
    /\ VerifyServed /\ McpServed /\ TokenActive /\ IsToolsCall
    /\ McpServer = "calculator"
    /\ ScopeClaim = Str("weather:read")
    /\ IsErrorEnvelope(-32600)

---------------------------------------------------------------------------
(* Concurrent JSON-RPC requests to the resource servers *)

\* The servers run mcp_endpoint as a coroutine per request.  It gives up
\* control once, at `await request.json()`, so two requests interleave
\* between being received and being served; inflight[t] holds the locals.

RpcServers == {"calculator", "weather"}

\* every method, a tool call of each server, and a payload that is not JSON
RpcBodies ==
    {b \in EndToEndBodies :
        "params" \in DOMAIN b[1].members => b[1].members["params"].members # EmptyDict}
        \cup {None}

RpcHeaders == OptionalKey("X-User-Scopes", {Str("x")})

mcp_endpoint(server, body, headers, now) ==
    IF server = "calculator"
    THEN calc_mcp_endpoint(body, headers, now)
    ELSE weather_mcp_endpoint(body, headers, now)

\* the request arrives: the header parameters are bound, the body is awaited
RpcReceive(t) ==
    /\ inflight[t].pc = "idle"
    /\ \E server \in RpcServers, body \in RpcBodies, headers \in RpcHeaders :
          inflight' = [inflight EXCEPT ![t] =
              [pc |-> "await", server |-> server, body |-> body, headers |-> headers]]
    /\ UNCHANGED <<KEYCLOAK_REALM, verify_request, verify_response, mcp_request,
                   mcp_response, session_vars, MCP_TOOLS, keys_vars, initialized>>

\* the body is in: the rest of mcp_endpoint runs to its return.
\* initialized_before records whether the server had answered an initialize.
RpcServe(t) ==
    /\ inflight[t].pc = "await"
    /\ \E now \in Timestamps :
          inflight' = [inflight EXCEPT ![t] =
              [pc |-> "done", server |-> inflight[t].server, body |-> inflight[t].body,
               headers |-> inflight[t].headers,
               initialized_before |-> inflight[t].server \in initialized,
               response |-> mcp_endpoint(inflight[t].server, inflight[t].body,
                                         inflight[t].headers, now)]]
    /\ UNCHANGED <<KEYCLOAK_REALM, verify_request, verify_response, mcp_request,
                   mcp_response, session_vars, MCP_TOOLS, keys_vars, initialized>>

\* the response is sent
RpcSend(t) ==
    /\ inflight[t].pc = "done"
    /\ inflight' = [inflight EXCEPT ![t] = [pc |-> "idle"]]
    /\ initialized' =
          IF /\ inflight[t].body # None
             /\ inflight[t].body[1].members["method"] = JStr(Str("initialize"))
             /\ inflight[t].response.status_code = 200
          THEN initialized \cup {inflight[t].server}
          ELSE initialized
    /\ UNCHANGED <<KEYCLOAK_REALM, verify_request, verify_response, mcp_request,
                   mcp_response, session_vars, MCP_TOOLS, keys_vars>>

NextRpc == \E t \in Threads : RpcReceive(t) \/ RpcServe(t) \/ RpcSend(t)

SpecRpc == InitSessions /\ [][NextRpc]_vars

---------------------------------------------------------------------------
(* Statelessness of the dispatcher (SpecRpc) *)

RpcAnswered(t) == inflight[t].pc = "done"

SameRequest(t, u) ==
    /\ inflight[t].server = inflight[u].server
    /\ inflight[t].body = inflight[u].body
    /\ inflight[t].headers = inflight[u].headers

RpcMethod(t) ==
    IF inflight[t].body = None THEN <<>> ELSE inflight[t].body[1].members["method"].str

\* a response without the date of the tool text and without the bookkeeping
Undated(response) ==
    LET sent == [status_code |-> response.status_code, content |-> response.content] IN
    IF response.content # None
       /\ "result" \in DOMAIN response.content[1]
       /\ "content" \in DOMAIN response.content[1]["result"]
    THEN LET result == response.content[1]["result"]
             text == result.content[1].text
             undated == [k \in DOMAIN text \ {"date"} |-> text[k]]
         IN [sent EXCEPT !.content =
               Some([response.content[1] EXCEPT !["result"] =
                       [result EXCEPT !.content =
                           <<[type |-> result.content[1].type, text |-> undated]>>]])]
    ELSE sent

RpcResult(t) ==
    /\ inflight[t].response.content # None
    /\ "result" \in DOMAIN inflight[t].response.content[1]

\* the request is a tools/call that names a tool the server registers
RpcCallsRegisteredTool(t) ==
    /\ RpcMethod(t) = Str("tools/call")
    /\ "params" \in DOMAIN inflight[t].body[1].members
    /\ "name" \in DOMAIN inflight[t].body[1].members["params"].members
    /\ inflight[t].body[1].members["params"].members["name"]
          \in {JStr(MCP_TOOLS[inflight[t].server][i]) :
                 i \in DOMAIN MCP_TOOLS[inflight[t].server]}

\* C21: the dispatcher is stateless across calls: whatever calls came before
\* or run alongside, two calls with the same body and headers get the same
\* envelope, timestamps aside, and the same stages run; tools/list and
\* tools/call need no earlier initialize.
C21_Stateless ==
    /\ \A t \in Threads, u \in Threads :
          (RpcAnswered(t) /\ RpcAnswered(u) /\ SameRequest(t, u)) =>
             /\ Undated(inflight[t].response) = Undated(inflight[u].response)
             /\ inflight[t].response.ran = inflight[u].response.ran
    /\ \A t \in Threads :
          (RpcAnswered(t) /\ RpcMethod(t) = Str("tools/list")) => RpcResult(t)
    /\ \A t \in Threads :
          (/\ RpcAnswered(t) /\ RpcCallsRegisteredTool(t)
           /\ "X-User-Scopes" \notin DOMAIN inflight[t].headers)
             => RpcResult(t)

\* the same tools/call of add, served once before the calculator answered any
\* initialize and once after, at different times: the same result
C21_Witness ==
    /\ RpcAnswered(1) /\ RpcAnswered(2) /\ SameRequest(1, 2)
    /\ inflight[1].server = "calculator"
    /\ RpcCallsRegisteredTool(1)
    /\ inflight[1].body[1].members["params"] = CallAdd
    /\ ~inflight[1].initialized_before
    /\ inflight[2].initialized_before
    /\ RpcResult(1) /\ RpcResult(2)
    /\ inflight[1].response # inflight[2].response
    /\ Undated(inflight[1].response) = Undated(inflight[2].response)

---------------------------------------------------------------------------
(* The two dispatchers as one protocol (SpecMcp) *)

OtherServer == IF McpServer = "calculator" THEN "weather" ELSE "calculator"

\* FitsRpcRequest, of any payload
BodyFits(body) ==
    /\ body # None
    /\ body[1].t = "obj"
    /\ LET d == body[1].members IN
       /\ {"id", "method"} \subseteq DOMAIN d
       /\ d["id"].t \in {"num", "str"}
       /\ d["method"].t = "str"
       /\ "jsonrpc" \in DOMAIN d => d["jsonrpc"].t = "str"
       /\ "params" \in DOMAIN d => d["params"].t = "obj"

Accepted(server) ==
    IF server = "calculator"
    THEN {Str("calculator:read"), Str("calculator-scope"), Str("openid")}
    ELSE {Str("weather:read"), Str("weather-scope")}

\* the abstract inputs of a request to a server: whether the body parses, the
\* method, whether the scope set (the header split on single spaces, the
\* server's default for an absent header) is satisfied, and whether
\* params.name is a tool the server registers
AbstractInputs(server, body, headers) ==
    LET value == IF "X-User-Scopes" \in DOMAIN headers THEN headers["X-User-Scopes"]
                 ELSE IF server = "calculator" THEN Str("calculator:read")
                 ELSE Str("weather:read")
        params == IF BodyFits(body) /\ "params" \in DOMAIN body[1].members
                  THEN body[1].members["params"].members ELSE EmptyDict
    IN
    [parses |-> BodyFits(body),
     method |-> IF BodyFits(body) THEN body[1].members["method"].str ELSE <<>>,
     scope_satisfied |-> TokensOf(value) \cap Accepted(server) # {},
     registered |-> /\ "name" \in DOMAIN params
                    /\ params["name"] \in {JStr(MCP_TOOLS[server][i]) :
                                             i \in DOMAIN MCP_TOOLS[server]}]

\* what the claim compares: the HTTP status, the kind of outcome, the error
\* code, and the checks made, in their order
Outcome(response) ==
    [status_code |-> response.status_code,
     kind |-> IF response.content = None THEN "none"
              ELSE IF "result" \in DOMAIN response.content[1] THEN "result"
              ELSE "error",
     code |-> IF response.content # None /\ "error" \in DOMAIN response.content[1]
              THEN response.content[1]["error"].code ELSE 0,
     ran |-> response.ran]

\* the outcome up to the point where the tool's branch is entered
OutcomeBeforeHandler(response) ==
    IF \E i \in DOMAIN response.ran : response.ran[i] = StCoerce
    THEN [status_code |-> 0, kind |-> "tool resolved", code |-> 0,
          ran |-> <<StParse, StScopes, StDispatch, StCheckScope, StResolve>>]
    ELSE Outcome(response)

\* requests put to the other server for comparison: every method and every
\* tool name, and a payload that is not JSON, with and without a foreign scope
ProtocolPeers ==
    {[body |-> b, headers |-> h] :
        b \in DispatchBodies \cup {None}, h \in OptionalKey("X-User-Scopes", {Str("x")})}

PeerResponse(peer) ==
    mcp_endpoint(OtherServer, peer.body, peer.headers, CHOOSE t \in Timestamps : TRUE)

\* C26: the calculator and weather dispatchers are one protocol state machine
\* that only the tool registry, the required scope and the alias set
\* parameterise: two requests, one to each server, with the same abstract
\* inputs (body parses or not, method, scope satisfied or not, tool name
\* registered or not) get the same HTTP status, the same outcome kind and
\* error code, with the checks made in the same order.
C26_SameProtocol ==
    McpServed =>
        \A peer \in ProtocolPeers :
            AbstractInputs(OtherServer, peer.body, peer.headers)
                  = AbstractInputs(McpServer, McpBody, McpHeaders)
               => Outcome(PeerResponse(peer)) = Outcome(McpResponse)

\* Up to the point where a tool's branch is entered the two dispatchers do
\* agree, for every X-User-Scopes header that is absent or not empty.
C26_SameProtocolBeforeHandlers ==
    (McpServed /\ ("X-User-Scopes" \in DOMAIN McpHeaders => McpHeaders["X-User-Scopes"] # <<>>)) =>
        \A peer \in ProtocolPeers :
            AbstractInputs(OtherServer, peer.body, peer.headers)
                  = AbstractInputs(McpServer, McpBody, McpHeaders)
               => OutcomeBeforeHandler(PeerResponse(peer)) = OutcomeBeforeHandler(McpResponse)

\* a refused tools/call on the calculator has a peer on the weather server
\* with the same abstract inputs and the same outcome
C26_PeerWitness ==
    /\ McpServed /\ IsToolsCall
    /\ McpServer = "calculator"
    /\ IsErrorEnvelope(-32600)
    /\ \E peer \in ProtocolPeers :
          /\ AbstractInputs(OtherServer, peer.body, peer.headers)
                = AbstractInputs(McpServer, McpBody, McpHeaders)
          /\ Outcome(PeerResponse(peer)) = Outcome(McpResponse)

=============================================================================
